---- MODULE Spec2Model ----
(***************************************************************************)
(* Transcript segmentation and highlight selection of scripts/segments.py. *)
(*                                                                         *)
(* Texts are sequences of one-character strings, so that substring         *)
(* containment, prefixes, suffixes and joins are computed on characters as *)
(* Python computes them.  Scores are kept in tenths (3.0 is 30): every     *)
(* weight of the program is a multiple of 0.5, so the sums are exact in    *)
(* floating point and in integers alike.  Line and segment indices are     *)
(* 0-based as in the program; lines[i] of the program is lines[i + 1].     *)
(***************************************************************************)
EXTENDS Integers, Sequences, FiniteSets, TLC

VARIABLES
    break_score,    \* Some(what calculate_break_score made of a line)
    output,         \* what main has printed: summaries and highlight lists
    selector,       \* Some(the fields of the TranscriptSelector of select_times.py)
    file,           \* the records of the .codes file, as parse_transcript_file reads them
    error,          \* Some(exception that ended main in its except clause)
    lines,          \* the parsed transcript: a sequence of TranscriptLine
    config,         \* [min_duration, max_duration, long_duration] of __init__
    pc,             \* position of main: "parse", "parsed", "call", "build",
                    \* "built", "done", "error"
    segments,       \* create_segments: the list being built (= temp_segments)
    current_start,  \* create_segments: the cursor
    step,           \* create_segments: Some(locals of the last iteration)
    highlights,     \* Some(dict returned by generate_highlight_reels)
    rng,            \* Some(state of the seeded random source); None: unseeded
    first_run       \* Some(segments of the earlier run under the same seed)

vars ==
    <<break_score, output, selector, file, error, lines, config, pc, segments, current_start,
      step, highlights, rng, first_run>>

\* Optional values: None is the empty sequence, a present value x is <<x>>.
None == <<>>
Some(x) == <<x>>

\* ------------------------------------------------------------------ text

UpperChars == <<"A","B","C","D","E","F","G","H","I","J","K","L","M",
                "N","O","P","Q","R","S","T","U","V","W","X","Y","Z">>
LowerChars == <<"a","b","c","d","e","f","g","h","i","j","k","l","m",
                "n","o","p","q","r","s","t","u","v","w","x","y","z">>
Digits == {"0","1","2","3","4","5","6","7","8","9"}

UpperSet == {UpperChars[k] : k \in 1..26}

\* str.lower() on one character
LowerChar(c) ==
    IF c \in UpperSet
    THEN LowerChars[CHOOSE k \in 1..26 : UpperChars[k] = c]
    ELSE c

RECURSIVE LowerFrom(_, _)
LowerFrom(t, i) ==
    IF i > Len(t) THEN <<>> ELSE <<LowerChar(t[i])>> \o LowerFrom(t, i + 1)

\* str.lower()
lower(t) == LowerFrom(t, 1)

\* what \s of a regular expression and str.strip() take for white space
IsSpace(c) == c \in {" ", "\t", "\n", "\r"}

\* what \w of a regular expression matches
IsWordChar(c) ==
    \/ \E k \in 1..26 : c = UpperChars[k] \/ c = LowerChars[k]
    \/ c \in Digits
    \/ c = "_"

\* w in t  (substring containment)
Contains(w, t) ==
    \E i \in 1..(Len(t) - Len(w) + 1) :
        \A j \in 1..Len(w) : t[i + j - 1] = w[j]

\* t.startswith(p)
StartsWith(t, p) == Len(p) <= Len(t) /\ SubSeq(t, 1, Len(p)) = p

\* t.endswith(s)
EndsWith(t, s) == Len(s) <= Len(t) /\ SubSeq(t, Len(t) - Len(s) + 1, Len(t)) = s

\* t.rstrip()
rstrip(t) ==
    LET keep == {i \in 1..Len(t) : ~IsSpace(t[i])}
    IN  IF keep = {} THEN <<>>
        ELSE SubSeq(t, 1, CHOOSE i \in keep : \A j \in keep : j <= i)

\* t.strip()
strip(t) ==
    LET keep == {i \in 1..Len(t) : ~IsSpace(t[i])}
    IN  IF keep = {} THEN <<>>
        ELSE SubSeq(t, CHOOSE i \in keep : \A j \in keep : i <= j,
                       CHOOSE i \in keep : \A j \in keep : j <= i)

RECURSIVE JoinFrom(_, _)
JoinFrom(texts, k) ==
    IF k > Len(texts) THEN <<>>
    ELSE IF k = Len(texts) THEN texts[k]
    ELSE texts[k] \o <<" ">> \o JoinFrom(texts, k + 1)

\* ' '.join(texts)
Join(texts) == JoinFrom(texts, 1)

RECURSIVE SumFrom(_, _)
SumFrom(s, k) == IF k > Len(s) THEN 0 ELSE s[k] + SumFrom(s, k + 1)

\* sum(s) of a sequence of numbers
Sum(s) == SumFrom(s, 1)

\* ------------------------------------------------------------ vocabulary

\* TRANSITION_WORDS['strong']: each adds 3.0 when contained in the line
TRANSITION_WORDS_strong ==
    << <<"n","o","w">>,
       <<"h","o","w","e","v","e","r">>,
       <<"b","u","t">>,
       <<"m","e","a","n","w","h","i","l","e">>,
       <<"f","u","r","t","h","e","r","m","o","r","e">>,
       <<"m","o","r","e","o","v","e","r">>,
       <<"a","d","d","i","t","i","o","n","a","l","l","y">>,
       <<"t","h","e","r","e","f","o","r","e">>,
       <<"c","o","n","s","e","q","u","e","n","t","l","y">>,
       <<"a","s"," ","a"," ","r","e","s","u","l","t">>,
       <<"i","n"," ","c","o","n","c","l","u","s","i","o","n">>,
       <<"t","o"," ","s","u","m","m","a","r","i","z","e">>,
       <<"m","o","v","i","n","g"," ","o","n">>,
       <<"n","e","x","t"," ","u","p">>,
       <<"s","p","e","a","k","i","n","g"," ","o","f">>,
       <<"t","h","a","t"," ","s","a","i","d">>,
       <<"o","n"," ","t","h","e"," ","o","t","h","e","r"," ","h","a","n","d">>,
       <<"i","n"," ","c","o","n","t","r","a","s","t">>,
       <<"a","l","t","e","r","n","a","t","i","v","e","l","y">>,
       <<"i","n","s","t","e","a","d">>,
       <<"r","a","t","h","e","r">>,
       <<"a","n","y","w","a","y">>,
       <<"s","o">> >>

\* TRANSITION_WORDS['medium']: each adds 2.0 when contained in the line
TRANSITION_WORDS_medium ==
    << <<"a","l","s","o">>,
       <<"a","n","d">>,
       <<"p","l","u","s">>,
       <<"t","h","e","n">>,
       <<"a","f","t","e","r">>,
       <<"b","e","f","o","r","e">>,
       <<"w","h","i","l","e">>,
       <<"d","u","r","i","n","g">>,
       <<"s","i","n","c","e">>,
       <<"b","e","c","a","u","s","e">>,
       <<"i","f">>,
       <<"w","h","e","n">>,
       <<"w","h","e","r","e">>,
       <<"w","h","y">>,
       <<"h","o","w">>,
       <<"w","h","a","t">>,
       <<"w","h","i","c","h">>,
       <<"w","h","o">>,
       <<"t","h","o","u","g","h">>,
       <<"a","l","t","h","o","u","g","h">>,
       <<"u","n","l","e","s","s">>,
       <<"u","n","t","i","l">>,
       <<"o","n","c","e">>,
       <<"a","s">>,
       <<"l","i","k","e">> >>

\* TRANSITION_WORDS['weak']: each adds 1.0 when the line starts with it and a space
TRANSITION_WORDS_weak ==
    << <<"t","h","e">>,
       <<"t","h","i","s">>,
       <<"t","h","a","t">>,
       <<"t","h","e","s","e">>,
       <<"t","h","o","s","e">>,
       <<"h","e","r","e">>,
       <<"t","h","e","r","e">>,
       <<"i">>,
       <<"y","o","u">>,
       <<"w","e">>,
       <<"t","h","e","y">>,
       <<"i","t">>,
       <<"h","e">>,
       <<"s","h","e">> >>

\* CONTINUATION_PHRASES: each subtracts 2.0 when contained in the line
CONTINUATION_PHRASES ==
    << <<"f","o","r"," ","e","x","a","m","p","l","e">>,
       <<"s","u","c","h"," ","a","s">>,
       <<"i","n"," ","o","t","h","e","r"," ","w","o","r","d","s">>,
       <<"t","h","a","t"," ","i","s">>,
       <<"i",".","e",".">>,
       <<"e",".","g",".">>,
       <<"s","p","e","c","i","f","i","c","a","l","l","y">>,
       <<"p","a","r","t","i","c","u","l","a","r","l","y">>,
       <<"e","s","p","e","c","i","a","l","l","y">>,
       <<"i","n","c","l","u","d","i","n","g">>,
       <<"l","i","k","e"," ","t","h","i","s">>,
       <<"a","s"," ","f","o","l","l","o","w","s">>,
       <<"a","s"," ","w","e","l","l"," ","a","s">> >>

\* the alternatives of the sentence-final regular expression
filler_words ==
    << <<"r","i","g","h","t">>,
       <<"o","k","a","y">>,
       <<"w","e","l","l">>,
       <<"y","e","a","h">>,
       <<"a","l","r","i","g","h","t">>,
       <<"s","o">> >>

\* topic_words of calculate_break_score, looked for in the next line
topic_words ==
    << <<"a","p","p">>,
       <<"f","e","a","t","u","r","e">>,
       <<"u","p","d","a","t","e">>,
       <<"n","e","w">>,
       <<"a","l","s","o">>,
       <<"a","n","o","t","h","e","r">>,
       <<"n","e","x","t">> >>

\* ending_words of calculate_break_score
ending_words ==
    << <<"n","o","w">>,
       <<"t","o","o">>,
       <<"w","e","l","l">>,
       <<"r","i","g","h","t">>,
       <<"t","h","e","r","e">>,
       <<"h","e","r","e">>,
       <<"d","o","n","e">> >>

\* announcement_words of analyze_segment_importance (weights in tenths)
announcement_words ==
    << <<<<"n","e","w">>, 20>>,
       <<<<"b","i","g","g","e","s","t">>, 30>>,
       <<<<"m","a","j","o","r">>, 20>>,
       <<<<"a","n","n","o","u","n","c","e","d">>, 20>>,
       <<<<"r","e","v","e","a","l">>, 20>>,
       <<<<"i","n","t","r","o","d","u","c","e">>, 20>>,
       <<<<"l","a","u","n","c","h","i","n","g">>, 20>>,
       <<<<"o","f","f","i","c","i","a","l","l","y">>, 20>>,
       <<<<"u","p","g","r","a","d","e">>, 15>>,
       <<<<"f","e","a","t","u","r","e">>, 15>>,
       <<<<"u","p","d","a","t","e">>, 10>>,
       <<<<"r","e","d","e","s","i","g","n">>, 20>>,
       <<<<"o","v","e","r","h","a","u","l">>, 25>> >>

\* tech_words of analyze_segment_importance (weights in tenths)
tech_words ==
    << <<<<"l","i","q","u","i","d"," ","g","l","a","s","s">>, 30>>,
       <<<<"a","i">>, 20>>,
       <<<<"i","n","t","e","l","l","i","g","e","n","c","e">>, 20>>,
       <<<<"c","a","m","e","r","a">>, 20>>,
       <<<<"s","i","r","i">>, 15>>,
       <<<<"s","a","f","a","r","i">>, 15>>,
       <<<<"p","h","o","t","o","s">>, 15>>,
       <<<<"f","a","c","e","t","i","m","e">>, 15>>,
       <<<<"m","e","s","s","a","g","e","s">>, 15>>,
       <<<<"d","e","s","i","g","n"," ","l","a","n","g","u","a","g","e">>, 25>>,
       <<<<"v","i","s","i","o","n"," ","o","s">>, 20>> >>

\* excitement_words of analyze_segment_importance (weights in tenths)
excitement_words ==
    << <<<<"a","m","a","z","i","n","g">>, 15>>,
       <<<<"i","n","c","r","e","d","i","b","l","e">>, 20>>,
       <<<<"c","o","o","l">>, 10>>,
       <<<<"a","w","e","s","o","m","e">>, 15>>,
       <<<<"r","e","v","o","l","u","t","i","o","n","a","r","y">>, 30>>,
       <<<<"g","a","m","e"," ","c","h","a","n","g","e","r">>, 25>>,
       <<<<"b","r","e","a","k","t","h","r","o","u","g","h">>, 25>>,
       <<<<"s","u","p","e","r">>, 10>>,
       <<<<"r","e","a","l","l","y">>, 5>>,
       <<<<"p","r","e","t","t","y">>, 5>> >>

\* practical_words of analyze_segment_importance (weights in tenths)
practical_words ==
    << <<<<"h","o","w"," ","t","o">>, 20>>,
       <<<<"y","o","u"," ","c","a","n">>, 10>>,
       <<<<"f","r","e","e">>, 15>>,
       <<<<"r","i","g","h","t"," ","n","o","w">>, 15>>,
       <<<<"w","a","r","n","i","n","g">>, 20>>,
       <<<<"r","i","s","k">>, 15>>,
       <<<<"b","e","t","a">>, 10>>,
       <<<<"i","n","s","t","a","l","l">>, 10>> >>

\* topic_keywords of assess_text_complexity
topic_keywords ==
    << <<"f","e","a","t","u","r","e">>,
       <<"a","p","p">>,
       <<"u","p","d","a","t","e">>,
       <<"n","e","w">>,
       <<"d","e","s","i","g","n">>,
       <<"i","n","t","e","r","f","a","c","e">>,
       <<"c","a","m","e","r","a">>,
       <<"p","h","o","t","o","s">>,
       <<"m","e","s","s","a","g","e","s">>,
       <<"s","a","f","a","r","i">>,
       <<"s","e","t","t","i","n","g","s">>,
       <<"i","n","t","e","l","l","i","g","e","n","c","e">>,
       <<"s","i","r","i">>,
       <<"f","a","c","e","t","i","m","e">> >>

\* explanation_phrases of assess_text_complexity
explanation_phrases ==
    << <<"b","a","s","i","c","a","l","l","y">>,
       <<"f","o","r"," ","e","x","a","m","p","l","e">>,
       <<"w","h","a","t"," ","t","h","i","s"," ","m","e","a","n","s">>,
       <<"h","o","w"," ","i","t"," ","w","o","r","k","s">>,
       <<"t","h","e"," ","i","d","e","a"," ","i","s">>,
       <<"s","o"," ","w","h","a","t"," ","h","a","p","p","e","n","s">>,
       <<"t","h","i","s"," ","a","l","l","o","w","s">>,
       <<"y","o","u"," ","c","a","n"," ","n","o","w">>,
       <<"t","h","e"," ","w","a","y"," ","t","h","i","s"," ","w","o","r","k","s">> >>

\* ---------------------------------------------------------------- scores

\* A test for the ending alone, the word boundary left out:
\* re.search(r'(right|okay|well|yeah|alright|so)\s*$', text).
SentenceFinal_suffix(text) ==
    LET t == rstrip(text)
    IN  \E k \in 1..Len(filler_words) : EndsWith(t, filler_words[k])

\* re.search(r'\b(right|okay|well|yeah|alright|so)\s*$', text): the text, less
\* its trailing white space, ends with an alternative that starts at a word
\* boundary.
SentenceFinal(text) ==
    LET t == rstrip(text)
    IN  \E k \in 1..Len(filler_words) :
            /\ EndsWith(t, filler_words[k])
            /\ \/ Len(t) = Len(filler_words[k])
               \/ ~IsWordChar(t[Len(t) - Len(filler_words[k])])

\* What each rule of calculate_break_score adds to or takes from the score,
\* in tenths.  next_line is Optional: has_next tells whether there is one,
\* and next_text is then its text.
BreakScoreParts(line_text, has_next, next_text) ==
    LET text == lower(line_text)
    IN  [strong |-> Sum([k \in 1..Len(TRANSITION_WORDS_strong) |->
                        IF Contains(TRANSITION_WORDS_strong[k], text) THEN 30 ELSE 0]),
         medium |-> Sum([k \in 1..Len(TRANSITION_WORDS_medium) |->
                        IF Contains(TRANSITION_WORDS_medium[k], text) THEN 20 ELSE 0]),
         weak   |-> Sum([k \in 1..Len(TRANSITION_WORDS_weak) |->
                        IF StartsWith(text, TRANSITION_WORDS_weak[k] \o <<" ">>)
                        THEN 10 ELSE 0]),
         cont   |-> Sum([k \in 1..Len(CONTINUATION_PHRASES) |->
                        IF Contains(CONTINUATION_PHRASES[k], text) THEN 20 ELSE 0]),
         final  |-> IF SentenceFinal(text) THEN 15 ELSE 0,
         topic  |-> IF /\ has_next
                       /\ \E k \in 1..Len(topic_words) :
                              Contains(topic_words[k], lower(next_text))
                    THEN 10 ELSE 0,
         ending |-> IF \E k \in 1..Len(ending_words) :
                          EndsWith(strip(text), <<" ">> \o ending_words[k])
                    THEN 5 ELSE 0]

\* calculate_break_score(line, next_line), in tenths.
calculate_break_score(line_text, has_next, next_text) ==
    LET part == BreakScoreParts(line_text, has_next, next_text)
    IN  part.strong + part.medium + part.weak - part.cont + part.final
        + part.topic + part.ending

RECURSIVE WeightFrom(_, _, _)
WeightFrom(dict, text, k) ==
    IF k > Len(dict) THEN 0
    ELSE (IF Contains(dict[k][1], text) THEN dict[k][2] ELSE 0)
         + WeightFrom(dict, text, k + 1)

\* "for word, weight in dict.items(): if word in text: score += weight"
WeightOf(dict, text) == WeightFrom(dict, text, 1)

\* The keyword part of analyze_segment_importance, in tenths.
KeywordScore(segment_text) ==
    LET text == lower(segment_text)
    IN  WeightOf(announcement_words, text) + WeightOf(tech_words, text)
        + WeightOf(excitement_words, text) + WeightOf(practical_words, text)

\* Segment texts of the lists handed to generate_highlight_reels directly: no
\* keyword, an announcement word, an excitement word in capitals, and an
\* announcement word with a technology phrase.
Text_empty == <<>>
Text_new == <<"n","e","w">>
Text_Really == <<"R","e","a","l","l","y">>
Text_biggest_liquid_glass ==
    <<"b","i","g","g","e","s","t"," ","l","i","q","u","i","d"," ","g","l","a","s","s">>
SegmentTexts == {Text_empty, Text_new, Text_Really, Text_biggest_liquid_glass}

\* The keyword part is pure: its values on those texts, computed once.
KeywordScoreOf == [t \in SegmentTexts |-> KeywordScore(t)]

\* analyze_segment_importance(segment), in tenths.
analyze_segment_importance(segment) ==
    (IF segment.text \in SegmentTexts THEN KeywordScoreOf[segment.text]
     ELSE KeywordScore(segment.text))
    + (IF segment.start_seconds < 60 THEN 10
       ELSE IF segment.start_seconds < 180 THEN 5 ELSE 0)
    + (IF 10 <= segment.duration /\ segment.duration <= 25 THEN 5 ELSE 0)
    - (IF segment.duration < 6 THEN 10 ELSE 0)

\* assess_text_complexity(lines, start_idx, end_idx), in tenths.
assess_text_complexity(ls, start_idx, end_idx) ==
    LET text == lower(Join([k \in 1..(end_idx - start_idx + 1) |->
                                ls[start_idx + k].text]))
        topic_count == Cardinality({k \in 1..Len(topic_keywords) :
                                        Contains(topic_keywords[k], text)})
        transition_count == Cardinality({k \in 1..Len(TRANSITION_WORDS_strong) :
                                        Contains(TRANSITION_WORDS_strong[k], text)})
    IN  (IF topic_count >= 3 THEN 20 ELSE IF topic_count >= 1 THEN 10 ELSE 0)
        + (IF \E k \in 1..Len(explanation_phrases) :
                    Contains(explanation_phrases[k], text)
           THEN 15 ELSE 0)
        - (IF transition_count > 4 THEN 10 ELSE 0)

\* --------------------------------------------------------- random source

\* random.random() on the seeded generator: the value drawn, in hundredths
\* (0..99 for [0, 1)).  The generator is a deterministic function of its
\* state; a full-period congruential generator stands for the Mersenne
\* Twister of the library.
RandomValue(state) == (21 * state + 13) % 100

\* The state of the generator after one draw.
RandomAdvance(state) == (21 * state + 13) % 100

\* random.seed(args.seed) of main: the generator state a seed sets.
SeedState(seed) == seed % 100

\* A run that never seeds: the generator goes on from where it stands.
Reseed_skipped(state, seed) == state

\* main: "if args.seed is not None: random.seed(args.seed)".
Reseed(state, seed) == IF seed # None THEN Some(SeedState(seed[1])) ELSE state

\* ------------------------------------------------- parse_transcript_file

RECURSIVE SplitFrom(_, _, _, _)
SplitFrom(t, sep, i, field) ==
    IF i > Len(t) THEN <<field>>
    ELSE IF t[i] = sep THEN <<field>> \o SplitFrom(t, sep, i + 1, <<>>)
    ELSE SplitFrom(t, sep, i + 1, Append(field, t[i]))

\* t.split(sep), sep one character
split(t, sep) == SplitFrom(t, sep, 1, <<>>)

RECURSIVE JoinWithFrom(_, _, _)
JoinWithFrom(sep, texts, k) ==
    IF k > Len(texts) THEN <<>>
    ELSE IF k = Len(texts) THEN texts[k]
    ELSE texts[k] \o <<sep>> \o JoinWithFrom(sep, texts, k + 1)

\* sep.join(texts)
JoinWith(sep, texts) == JoinWithFrom(sep, texts, 1)

DigitChars == <<"0","1","2","3","4","5","6","7","8","9">>
DigitValue(c) == (CHOOSE k \in 1..10 : DigitChars[k] = c) - 1

RECURSIVE DecimalFrom(_, _, _)
DecimalFrom(t, i, value) ==
    IF i > Len(t) THEN value
    ELSE IF t[i] = "_" THEN DecimalFrom(t, i + 1, value)
    ELSE DecimalFrom(t, i + 1, 10 * value + DigitValue(t[i]))

\* int(t): Some(value) of an optional sign and decimal digits, single
\* underscores allowed between digits, white space allowed around; None
\* where int raises ValueError.
int(t) ==
    LET u == strip(t)
        signed == u # <<>> /\ u[1] \in {"+", "-"}
        body == IF signed THEN Tail(u) ELSE u
        literal ==
            /\ body # <<>>
            /\ body[1] \in Digits
            /\ body[Len(body)] \in Digits
            /\ \A i \in 1..Len(body) : body[i] \in Digits \cup {"_"}
            /\ \A i \in 1..(Len(body) - 1) : ~(body[i] = "_" /\ body[i + 1] = "_")
        value == DecimalFrom(body, 1, 0)
    IN  IF ~literal THEN None
        ELSE IF signed /\ u[1] = "-" THEN Some(0 - value)
        ELSE Some(value)

\* TranscriptLine(line_counter, timestamp, seconds, text), the timestamp as
\* the file spells it
ParsedLine(line_counter, timestamp, seconds, text) ==
    [line_number |-> line_counter, timestamp |-> timestamp,
     seconds |-> seconds, text |-> text]

\* The state of the loop of parse_transcript_file; raised says that int()
\* raised ValueError.
ParseState(ls, line_counter, raised) ==
    [lines |-> ls, line_counter |-> line_counter, raised |-> raised]

\* The body of "for line in f" with the ValueError of int() caught and the
\* record passed over.
ParseRecord_skipping(record, ls, line_counter) ==
    LET line == strip(record)
        parts == split(line, "\t")
        seconds == int(strip(parts[2]))
    IN  IF line = <<>> \/ Len(parts) < 3 \/ seconds = None
        THEN ParseState(ls, line_counter, FALSE)
        ELSE ParseState(
                 Append(ls, ParsedLine(line_counter, strip(parts[1]), seconds[1],
                     strip(JoinWith("\t", SubSeq(parts, 3, Len(parts)))))),
                 line_counter + 1, FALSE)

\* The body of "for line in f" with a "line_counter += 1" before the
\* "continue" of a blank record too.
ParseRecord_counting_blank(record, ls, line_counter) ==
    LET line == strip(record)
        parts == split(line, "\t")
        seconds == int(strip(parts[2]))
    IN  IF line = <<>> THEN ParseState(ls, line_counter + 1, FALSE)
        ELSE IF Len(parts) < 3 THEN ParseState(ls, line_counter, FALSE)
        ELSE IF seconds = None THEN ParseState(ls, line_counter, TRUE)
        ELSE ParseState(
                 Append(ls, ParsedLine(line_counter, strip(parts[1]), seconds[1],
                     strip(JoinWith("\t", SubSeq(parts, 3, Len(parts)))))),
                 line_counter + 1, FALSE)

\* The body of "for line in f": a blank record is passed over, a record of
\* fewer than three fields falls through the "if" with nothing done, and
\* int() of the second field either raises or gives the seconds of a new line.
ParseRecord(record, ls, line_counter) ==
    LET line == strip(record)
        parts == split(line, "\t")
        seconds == int(strip(parts[2]))
    IN  IF line = <<>> THEN ParseState(ls, line_counter, FALSE)
        ELSE IF Len(parts) < 3 THEN ParseState(ls, line_counter, FALSE)
        ELSE IF seconds = None THEN ParseState(ls, line_counter, TRUE)
        ELSE ParseState(
                 Append(ls, ParsedLine(line_counter, strip(parts[1]), seconds[1],
                     strip(JoinWith("\t", SubSeq(parts, 3, Len(parts)))))),
                 line_counter + 1, FALSE)

RECURSIVE ParseLoop(_, _, _)
ParseLoop(records, k, state) ==
    IF k > Len(records) \/ state.raised THEN state
    ELSE ParseLoop(records, k + 1,
                   ParseRecord(records[k], state.lines, state.line_counter))

\* parse_transcript_file: the loop from "lines = []", "line_counter = 1";
\* where raised is FALSE the lines are what "return lines" hands back.
parse_transcript_file(records) == ParseLoop(records, 1, ParseState(<<>>, 1, FALSE))

\* ------------------------------------------------------- create_segments

Max(a, b) == IF a >= b THEN a ELSE b
Min(a, b) == IF a <= b THEN a ELSE b

\* ls[i] of a list: Some(element), counting from the end for a negative i;
\* None where the subscript raises IndexError.
Subscript(ls, i) ==
    IF 0 <= i /\ i < Len(ls) THEN Some(ls[i + 1])
    ELSE IF i < 0 /\ 0 - i <= Len(ls) THEN Some(ls[Len(ls) + i + 1])
    ELSE None

\* "lines[-1].seconds - lines[0].seconds" with no "if lines else 0".
total_duration_unguarded(ls) ==
    LET last == Subscript(ls, -1)
        first == Subscript(ls, 0)
    IN  IF last = None \/ first = None THEN None
        ELSE Some(last[1].seconds - first[1].seconds)

\* "total_duration = lines[-1].seconds - lines[0].seconds if lines else 0":
\* Some(total_duration), or None where a subscript raises IndexError.
total_duration(ls) ==
    LET last == Subscript(ls, -1)
        first == Subscript(ls, 0)
    IN  IF Len(ls) > 0
        THEN IF last = None \/ first = None THEN None
             ELSE Some(last[1].seconds - first[1].seconds)
        ELSE Some(0)

\* estimated_segments of create_segments
estimated_segments(ls) == Max(1, total_duration(ls)[1] \div 25)

\* should_create_long_segment with the chances of its last two branches
\* exchanged: 0.3 below half the target, 0.6 near the target.
should_create_long_segment_swapped(temp_segments, segments_created, total_estimated, random_factor) ==
    IF total_estimated = 0 THEN FALSE
    ELSE
        LET current_long_count ==
                Cardinality({k \in 1..Len(temp_segments) :
                                temp_segments[k].duration > 22})
            denominator == Max(1, segments_created)
            target_exceeded == current_long_count * 100 >= 15 * denominator
        IN  IF target_exceeded THEN random_factor < 10
            ELSE IF current_long_count * 1000 < 75 * denominator
                 THEN random_factor < 30
            ELSE random_factor < 60

\* should_create_long_segment, given the draw random_factor (hundredths).
\* current_ratio >= 0.15 and current_ratio < 0.15 * 0.5 are compared exactly,
\* cross-multiplied.
should_create_long_segment(temp_segments, segments_created, total_estimated, random_factor) ==
    IF total_estimated = 0 THEN FALSE
    ELSE
        LET current_long_count ==
                Cardinality({k \in 1..Len(temp_segments) :
                                temp_segments[k].duration > 22})
            denominator == Max(1, segments_created)
            target_exceeded == current_long_count * 100 >= 15 * denominator
        IN  IF target_exceeded THEN random_factor < 10
            ELSE IF current_long_count * 1000 < 75 * denominator
                 THEN random_factor < 60
            ELSE random_factor < 30

\* The target window <<target_min, target_max>> of one loop iteration;
\* random_factor is the second draw, made only when no long segment is tried.
TargetWindow(cfg, should_go_long, random_factor) ==
    IF should_go_long THEN <<22, cfg.long_duration>>
    ELSE IF random_factor < 30 THEN <<6, 11>>
    ELSE <<cfg.min_duration, cfg.max_duration>>

\* A scan that restarts at the first line of the transcript instead of the
\* cursor: "for i in range(len(lines))".
MinEndIdx_rescan(ls, start, target_min) ==
    LET hit == {i \in 0..(Len(ls) - 1) :
                    ls[i + 1].seconds - ls[start + 1].seconds >= target_min}
    IN  IF hit = {} THEN Len(ls) - 1
        ELSE CHOOSE i \in hit : \A j \in hit : i <= j

\* The minimum scan with "if duration > target_min".
MinEndIdx_strict(ls, start, target_min) ==
    LET hit == {i \in start..(Len(ls) - 1) :
                    ls[i + 1].seconds - ls[start + 1].seconds > target_min}
    IN  IF hit = {} THEN Len(ls) - 1
        ELSE CHOOSE i \in hit : \A j \in hit : i <= j

\* The minimum scan stopping one line early: "min_end_idx = i - 1", kept at
\* or after the cursor.
MinEndIdx_one_short(ls, start, target_min) ==
    LET hit == {i \in start..(Len(ls) - 1) :
                    ls[i + 1].seconds - ls[start + 1].seconds >= target_min}
    IN  IF hit = {} THEN Len(ls) - 1
        ELSE Max(start, (CHOOSE i \in hit : \A j \in hit : i <= j) - 1)

\* "Find minimum duration boundary": the first index from current_start on
\* whose line is at least target_min after the start line, else the last index.
MinEndIdx(ls, start, target_min) ==
    LET hit == {i \in start..(Len(ls) - 1) :
                    ls[i + 1].seconds - ls[start + 1].seconds >= target_min}
    IN  IF hit = {} THEN Len(ls) - 1
        ELSE CHOOSE i \in hit : \A j \in hit : i <= j

\* The maximum scan with "max_end_idx = i" where the bound is exceeded, the
\* step back left out.
MaxEndIdx_no_backoff(ls, start, min_end_idx, target_max) ==
    LET over == {i \in min_end_idx..(Len(ls) - 1) :
                    ls[i + 1].seconds - ls[start + 1].seconds > target_max}
    IN  IF over = {} THEN Len(ls) - 1
        ELSE CHOOSE i \in over : \A j \in over : i <= j

\* "Find maximum duration boundary": the loop from min_end_idx on; the index
\* before the first line more than target_max after the start line, else the
\* last index.
MaxEndIdx(ls, start, min_end_idx, target_max) ==
    LET over == {i \in min_end_idx..(Len(ls) - 1) :
                    ls[i + 1].seconds - ls[start + 1].seconds > target_max}
    IN  IF over = {} THEN Len(ls) - 1
        ELSE (CHOOSE i \in over : \A j \in over : i <= j) - 1

\* Transcript texts: a filler word that is also a strong transition, topic
\* words, a continuation phrase, and one that ends on a completion word.
Text_So == <<"S","o">>
Text_new_app == <<"n","e","w"," ","a","p","p">>
Text_for_example == <<"f","o","r"," ","e","x","a","m","p","l","e">>
Text_for_example_too ==
    <<"f","o","r"," ","e","x","a","m","p","l","e"," ","t","o","o">>
LineTexts == {Text_So, Text_new_app, Text_for_example, Text_for_example_too}

\* calculate_break_score is pure: its values on the transcript texts, computed
\* once.
BreakScoreLast == [t \in LineTexts |-> calculate_break_score(t, FALSE, <<>>)]
BreakScoreNext ==
    [t \in LineTexts |-> [n \in LineTexts |-> calculate_break_score(t, TRUE, n)]]

\* "score = self.calculate_break_score(lines[i], next_line)" with
\* "next_line = lines[i + 1] if i + 1 < len(lines) else None".
BreakScoreAt(ls, i) ==
    LET text == ls[i + 1].text
        has_next == i + 1 < Len(ls)
        next_text == IF has_next THEN ls[i + 2].text ELSE <<>>
    IN  IF text \in LineTexts /\ next_text \in LineTexts \cup {<<>>}
        THEN IF has_next THEN BreakScoreNext[text][next_text]
             ELSE BreakScoreLast[text]
        ELSE calculate_break_score(text, has_next, next_text)

RECURSIVE BestBreakLoop(_, _, _, _, _)
BestBreakLoop(ls, i, stop, best_idx, best_score) ==
    IF i >= stop THEN best_idx
    ELSE LET score == BreakScoreAt(ls, i)
         IN  IF score > best_score
             THEN BestBreakLoop(ls, i + 1, stop, i, score)
             ELSE BestBreakLoop(ls, i + 1, stop, best_idx, best_score)

\* find_best_break_in_range: best_idx starts at min_end_idx and best_score at
\* -1.0; a later index replaces it only with a strictly greater score.
find_best_break_in_range(ls, start_idx, min_end_idx, max_end_idx) ==
    BestBreakLoop(ls, min_end_idx, Min(max_end_idx + 1, Len(ls)), min_end_idx, -10)

\* Segment(...) with "end_line=end_idx", the index in place of the number.
MakeSegment_end_index(ls, start, end_idx) ==
    [start_line    |-> ls[start + 1].line_number,
     end_line      |-> end_idx,
     start_time    |-> ls[start + 1].timestamp,
     end_time      |-> ls[end_idx + 1].timestamp,
     start_seconds |-> ls[start + 1].seconds,
     end_seconds   |-> ls[end_idx + 1].seconds,
     duration      |-> ls[end_idx + 1].seconds - ls[start + 1].seconds,
     text          |-> Join([k \in 1..(end_idx - start + 1) |-> ls[start + k].text])]

\* Segment(...) of create_segments for lines[current_start .. end_idx].
MakeSegment(ls, start, end_idx) ==
    [start_line    |-> ls[start + 1].line_number,
     end_line      |-> ls[end_idx + 1].line_number,
     start_time    |-> ls[start + 1].timestamp,
     end_time      |-> ls[end_idx + 1].timestamp,
     start_seconds |-> ls[start + 1].seconds,
     end_seconds   |-> ls[end_idx + 1].seconds,
     duration      |-> ls[end_idx + 1].seconds - ls[start + 1].seconds,
     text          |-> Join([k \in 1..(end_idx - start + 1) |-> ls[start + k].text])]

\* The iteration with the content test "if content_score <= 1.0".
LoopBody_gate_inclusive(ls, cfg, segs, start, r1, r2) ==
    LET should_go_long ==
            should_create_long_segment(segs, Len(segs), estimated_segments(ls), r1)
        window == TargetWindow(cfg, should_go_long, r2)
        target_min == window[1]
        min_end_idx == MinEndIdx(ls, start, target_min)
        first_max_end == MaxEndIdx(ls, start, min_end_idx, window[2])
        gated == should_go_long /\ first_max_end > min_end_idx
        content_score ==
            IF gated THEN assess_text_complexity(ls, start, first_max_end) ELSE 0
        rejected == gated /\ content_score <= 10
        target_max == IF rejected THEN cfg.max_duration ELSE window[2]
        max_end_idx ==
            IF rejected THEN MaxEndIdx(ls, start, min_end_idx, target_max)
            ELSE first_max_end
        best == IF max_end_idx > min_end_idx
                THEN find_best_break_in_range(ls, start, min_end_idx, max_end_idx)
                ELSE min_end_idx
        end_idx == Min(best, Len(ls) - 1)
    IN  [current_start  |-> start,
         should_go_long |-> should_go_long,
         draws          |-> IF should_go_long THEN 1 ELSE 2,
         target_min     |-> target_min,
         target_max     |-> target_max,
         min_end_idx    |-> min_end_idx,
         long_max_end   |-> first_max_end,
         rejected       |-> rejected,
         max_end_idx    |-> max_end_idx,
         end_idx        |-> end_idx,
         segment        |-> MakeSegment(ls, start, end_idx)]

\* An iteration whose rejected long attempt lowers target_max and leaves
\* max_end_idx as the long scan set it.
LoopBody_window_kept(ls, cfg, segs, start, r1, r2) ==
    LET should_go_long ==
            should_create_long_segment(segs, Len(segs), estimated_segments(ls), r1)
        window == TargetWindow(cfg, should_go_long, r2)
        target_min == window[1]
        min_end_idx == MinEndIdx(ls, start, target_min)
        first_max_end == MaxEndIdx(ls, start, min_end_idx, window[2])
        gated == should_go_long /\ first_max_end > min_end_idx
        content_score ==
            IF gated THEN assess_text_complexity(ls, start, first_max_end) ELSE 0
        rejected == gated /\ content_score < 10
        target_max == IF rejected THEN cfg.max_duration ELSE window[2]
        max_end_idx == first_max_end
        best == IF max_end_idx > min_end_idx
                THEN find_best_break_in_range(ls, start, min_end_idx, max_end_idx)
                ELSE min_end_idx
        end_idx == Min(best, Len(ls) - 1)
    IN  [current_start  |-> start,
         should_go_long |-> should_go_long,
         draws          |-> IF should_go_long THEN 1 ELSE 2,
         target_min     |-> target_min,
         target_max     |-> target_max,
         min_end_idx    |-> min_end_idx,
         long_max_end   |-> first_max_end,
         rejected       |-> rejected,
         max_end_idx    |-> max_end_idx,
         end_idx        |-> end_idx,
         segment        |-> MakeSegment(ls, start, end_idx)]

\* One iteration of the while loop of create_segments, with the two draws it
\* may make: its locals, and the segment it appends.
LoopBody(ls, cfg, segs, start, r1, r2) ==
    LET should_go_long ==
            should_create_long_segment(segs, Len(segs), estimated_segments(ls), r1)
        window == TargetWindow(cfg, should_go_long, r2)
        target_min == window[1]
        min_end_idx == MinEndIdx(ls, start, target_min)
        first_max_end == MaxEndIdx(ls, start, min_end_idx, window[2])
        gated == should_go_long /\ first_max_end > min_end_idx
        content_score ==
            IF gated THEN assess_text_complexity(ls, start, first_max_end) ELSE 0
        rejected == gated /\ content_score < 10
        target_max == IF rejected THEN cfg.max_duration ELSE window[2]
        max_end_idx ==
            IF rejected THEN MaxEndIdx(ls, start, min_end_idx, target_max)
            ELSE first_max_end
        best == IF max_end_idx > min_end_idx
                THEN find_best_break_in_range(ls, start, min_end_idx, max_end_idx)
                ELSE min_end_idx
        end_idx == Min(best, Len(ls) - 1)
    IN  [current_start  |-> start,
         should_go_long |-> should_go_long,
         draws          |-> IF should_go_long THEN 1 ELSE 2,
         target_min     |-> target_min,
         target_max     |-> target_max,
         min_end_idx    |-> min_end_idx,
         long_max_end   |-> first_max_end,
         rejected       |-> rejected,
         max_end_idx    |-> max_end_idx,
         end_idx        |-> end_idx,
         segment        |-> MakeSegment(ls, start, end_idx)]

\* ---------------------------------------------- generate_highlight_reels

\* list.sort(key=...) is stable: a pair goes after every pair whose key is not
\* greater.  Pairs are <<key, item>>; s is sorted by key.
InsertByKey(s, p) ==
    LET n == Cardinality({k \in 1..Len(s) : s[k][1] <= p[1]})
    IN  SubSeq(s, 1, n) \o <<p>> \o SubSeq(s, n + 1, Len(s))

RECURSIVE SortLoop(_, _, _)
SortLoop(pairs, k, acc) ==
    IF k > Len(pairs) THEN acc
    ELSE SortLoop(pairs, k + 1, InsertByKey(acc, pairs[k]))

\* The pairs in ascending order of key, equal keys in their original order.
StableSort(pairs) == SortLoop(pairs, 1, <<>>)

\* scored_segments after "sort(key=score)" and "reverse()": descending scores,
\* equal scores in the reverse of their original order.
ScoredSegments_reversed(segs) ==
    LET keyed == StableSort([k \in 1..Len(segs) |->
                    <<analyze_segment_importance(segs[k]), segs[k]>>])
    IN  [k \in 1..Len(keyed) |-> keyed[Len(keyed) + 1 - k]]

\* scored_segments after sort(key=score, reverse=True): pairs <<score, seg>>
\* by descending score, equal scores in their original order.
ScoredSegments(segs) ==
    LET keyed == StableSort([k \in 1..Len(segs) |->
                    <<0 - analyze_segment_importance(segs[k]), segs[k]>>])
    IN  [k \in 1..Len(keyed) |-> <<0 - keyed[k][1], keyed[k][2]>>]

RECURSIVE TierLoop(_, _, _, _, _, _, _)
TierLoop(scored, k, max_count, max_duration, threshold, picked, duration) ==
    IF k > Len(scored) THEN picked
    ELSE IF /\ Len(picked) < max_count
            /\ duration < max_duration
            /\ scored[k][1] > threshold
         THEN TierLoop(scored, k + 1, max_count, max_duration, threshold,
                       Append(picked, scored[k][2]),
                       duration + scored[k][2].duration)
         ELSE TierLoop(scored, k + 1, max_count, max_duration, threshold,
                       picked, duration)

\* A selection loop that never looks at the accumulated duration.
SelectTier_uncapped(scored, max_count, max_duration, threshold) ==
    TierLoop(scored, 1, max_count, 1000000, threshold, <<>>, 0)

\* A selection loop whose count test is "<=" instead of "<".
SelectTier_one_more(scored, max_count, max_duration, threshold) ==
    TierLoop(scored, 1, max_count + 1, max_duration, threshold, <<>>, 0)

\* A selection loop whose score test is ">=" instead of ">" (scores are whole
\* tenths).
SelectTier_inclusive(scored, max_count, max_duration, threshold) ==
    TierLoop(scored, 1, max_count, max_duration, threshold - 1, <<>>, 0)

\* A selection loop that admits a candidate only where it fits under the
\* duration limit, and so goes on to later, shorter candidates.
RECURSIVE TierLoop_fitting(_, _, _, _, _, _, _)
TierLoop_fitting(scored, k, max_count, max_duration, threshold, picked, duration) ==
    IF k > Len(scored) THEN picked
    ELSE IF /\ Len(picked) < max_count
            /\ duration + scored[k][2].duration <= max_duration
            /\ scored[k][1] > threshold
         THEN TierLoop_fitting(scored, k + 1, max_count, max_duration, threshold,
                               Append(picked, scored[k][2]),
                               duration + scored[k][2].duration)
         ELSE TierLoop_fitting(scored, k + 1, max_count, max_duration, threshold,
                               picked, duration)

SelectTier_fitting(scored, max_count, max_duration, threshold) ==
    TierLoop_fitting(scored, 1, max_count, max_duration, threshold, <<>>, 0)

\* One selection loop of generate_highlight_reels: the segments admitted, in
\* the order of scored_segments.
SelectTier(scored, max_count, max_duration, threshold) ==
    TierLoop(scored, 1, max_count, max_duration, threshold, <<>>, 0)

\* A tier returned in the order of admission, the final sort left out.
TimelineOrder_unsorted(tier) == tier

\* tier.sort(key=lambda x: x.start_seconds)
TimelineOrder(tier) ==
    LET keyed == StableSort([k \in 1..Len(tier) |-> <<tier[k].start_seconds, tier[k]>>])
    IN  [k \in 1..Len(keyed) |-> keyed[k][2]]

\* A variant that sorts the caller's list itself: "segments.sort(...)" in
\* place of a sort of the scored copy.
generate_highlight_reels_in_place(segs) ==
    LET scored == ScoredSegments(segs)
    IN  [segments      |-> [k \in 1..Len(scored) |-> scored[k][2]],
         quick         |-> TimelineOrder(SelectTier(scored, 8, 120, 10)),
         extended      |-> TimelineOrder(SelectTier(scored, 12, 180, 5)),
         comprehensive |-> TimelineOrder(SelectTier(scored, 20, 240, 2))]

\* A variant whose quick tier has the loosest limits and whose comprehensive
\* tier has the tightest.
generate_highlight_reels_tiers_swapped(segs) ==
    LET scored == ScoredSegments(segs)
    IN  [segments      |-> segs,
         quick         |-> TimelineOrder(SelectTier(scored, 20, 240, 2)),
         extended      |-> TimelineOrder(SelectTier(scored, 12, 180, 5)),
         comprehensive |-> TimelineOrder(SelectTier(scored, 8, 120, 10))]

\* generate_highlight_reels(segments): the three lists returned, and the
\* caller's list as the call leaves it.
generate_highlight_reels(segs) ==
    LET scored == ScoredSegments(segs)
    IN  [segments      |-> segs,
         quick         |-> TimelineOrder(SelectTier(scored, 8, 120, 10)),
         extended      |-> TimelineOrder(SelectTier(scored, 12, 180, 5)),
         comprehensive |-> TimelineOrder(SelectTier(scored, 20, 240, 2))]

\* ------------------------------------------- display_segments and main

\* a / b of two integers: Some(<<a, b>>), the quotient as a fraction, or None
\* where the division raises ZeroDivisionError.
TrueDivide(a, b) == IF b = 0 THEN None ELSE Some(<<a, b>>)

\* display_segments(segments): Some(the summary it prints), or None where it
\* raises.  The average is computed under "if len(segments) > 0"; the four
\* shares of the duration distribution divide by len(segments) unguarded.
display_segments(segs) ==
    LET all == 1..Len(segs)
        short == Cardinality({k \in all : segs[k].duration < 9})
        medium ==
            Cardinality({k \in all : 9 <= segs[k].duration /\ segs[k].duration <= 18})
        long_medium ==
            Cardinality({k \in all : 19 <= segs[k].duration /\ segs[k].duration <= 22})
        long == Cardinality({k \in all : segs[k].duration > 22})
        summed == Sum([k \in all |-> segs[k].duration])
        distribution ==
            <<TrueDivide(short, Len(segs)), TrueDivide(medium, Len(segs)),
              TrueDivide(long_medium, Len(segs)), TrueDivide(long, Len(segs))>>
    IN  IF \E k \in 1..4 : distribution[k] = None THEN None
        ELSE Some([total_segments |-> Len(segs),
                   total_duration |-> summed,
                   average        |-> IF Len(segs) > 0
                                      THEN TrueDivide(summed, Len(segs))
                                      ELSE None,
                   distribution   |-> distribution])

RECURSIVE DigitsOf(_)
DigitsOf(n) ==
    IF n < 10 THEN <<DigitChars[n + 1]>>
    ELSE DigitsOf(n \div 10) \o <<DigitChars[(n % 10) + 1]>>

\* str(n) of an integer
str(n) == IF n < 0 THEN <<"-">> \o DigitsOf(0 - n) ELSE DigitsOf(n)

\* format_highlight_list(segments):
\* ','.join(f"{seg.start_time}_{seg.duration}" for seg in segments)
format_highlight_list(segs) ==
    JoinWith(",", [k \in 1..Len(segs) |->
                      segs[k].start_time \o <<"_">> \o str(segs[k].duration)])

\* ------------------------------------------------- TranscriptSelector

\* get_duration_for_range(start_idx, end_idx): from the start line to the line
\* after the end line, or to 3 s after the end line when it is the last; 0
\* for an index past the end.  A negative index counts from the end.
get_duration_for_range(ls, start_idx, end_idx) ==
    IF start_idx >= Len(ls) \/ end_idx >= Len(ls) THEN 0
    ELSE LET start_seconds == Subscript(ls, start_idx)[1].seconds
             end_seconds ==
                 IF end_idx + 1 < Len(ls)
                 THEN Subscript(ls, end_idx + 1)[1].seconds
                 ELSE Subscript(ls, end_idx)[1].seconds + 3
         IN  end_seconds - start_seconds

\* get_total_selected_duration()
get_total_selected_duration(ls, ranges) ==
    Sum([k \in 1..Len(ranges) |->
            get_duration_for_range(ls, ranges[k][1], ranges[k][2])])

\* format_duration(seconds): minutes and seconds of "M:SS", as <<M, SS>>.
format_duration(seconds) == <<seconds \div 60, seconds % 60>>

\* The "Range i: start - end (duration)" lines and the total run prints after
\* the loop: Some(them), or None where a subscript raises IndexError.
PrintedRanges(ls, ranges) ==
    IF \E k \in 1..Len(ranges) :
            Subscript(ls, ranges[k][1]) = None \/ Subscript(ls, ranges[k][2]) = None
    THEN None
    ELSE Some([ranges |->
                  [k \in 1..Len(ranges) |->
                      [start    |-> Subscript(ls, ranges[k][1])[1].timestamp,
                       end      |-> Subscript(ls, ranges[k][2])[1].timestamp,
                       duration |-> format_duration(
                           get_duration_for_range(ls, ranges[k][1], ranges[k][2]))]],
               total |-> format_duration(get_total_selected_duration(ls, ranges))])

\* ---------------------------------------------------------------- inputs

\* Longest transcript of the exhaustive runs.
MaxLines == 3
\* Longest transcript of the runs repeated under one seed.
MaxSeededLines == 3
\* Longest segment list handed to generate_highlight_reels directly.
MaxSegments == 21
\* Largest --seed.
MaxSeed == 3

\* The <<seconds, text>> a line is drawn from; a transcript file may hold the
\* seconds in any order, so a sequence need not be ascending.
LinePool ==
    {<<0, Text_So>>, <<0, Text_new_app>>,
     <<10, Text_So>>, <<10, Text_new_app>>, <<10, Text_for_example>>,
     <<15, Text_So>>, <<15, Text_for_example_too>>,
     <<40, Text_So>>, <<40, Text_new_app>>, <<40, Text_for_example>>}

\* The lines of the runs repeated under one seed.
SeededLinePool ==
    {<<0, Text_So>>, <<10, Text_new_app>>, <<15, Text_So>>,
     <<40, Text_So>>, <<40, Text_new_app>>}

\* The timestamp column that goes with a seconds value, as <<minutes, seconds>>.
Stamp(seconds) == <<seconds \div 60, seconds % 60>>

\* TranscriptLine(line_counter, timestamp, seconds, text)
TranscriptLine(line_number, seconds, text) ==
    [line_number |-> line_number, timestamp |-> Stamp(seconds),
     seconds |-> seconds, text |-> text]

\* The line sequences of up to n lines drawn from pool: line k carries
\* line_number k.
LineSeqs(pool, n) ==
    UNION {{[k \in 1..m |-> TranscriptLine(k, f[k][1], f[k][2])] :
                f \in [1..m -> pool]} : m \in 0..n}

\* --min-duration, --max-duration, --long-duration: the defaults, and two
\* degenerate choices the argument parser lets through (type=int takes any
\* integer).
DefaultDurations == <<9, 18, 30>>
DurationsPool == {DefaultDurations, <<15, 10, 25>>, <<-5, -1, -1>>}

\* TranscriptSegmenter(args.min_duration, args.max_duration,
\* args.long_duration), with args.seed beside it.
Config(durations, seed) ==
    [min_duration |-> durations[1], max_duration |-> durations[2],
     long_duration |-> durations[3], seed |-> seed]

\* Values of random.random(), in hundredths, on both sides of 0.1, 0.3, 0.6.
Draws == {9, 10, 29, 30, 59, 60}
\* Values of the second draw, on both sides of 0.3.
SecondDraws == {29, 30}

\* Segment lists for generate_highlight_reels: n segments alternating between
\* two templates <<duration, text>>, the k-th starting at stride * (k - 1).
SegmentTemplates == {-5, 10, 50} \X SegmentTexts
StartStrides == {-10, 10, 60}

SegmentAt(k, template, stride) ==
    LET start == stride * (k - 1)
    IN  [start_line    |-> k,
         end_line      |-> k,
         start_time    |-> Stamp(start),
         end_time      |-> Stamp(start + template[1]),
         start_seconds |-> start,
         end_seconds   |-> start + template[1],
         duration      |-> template[1],
         text          |-> template[2]]

SegmentSeqs(n) ==
    {[k \in 1..m |-> SegmentAt(k, IF k % 2 = 1 THEN a ELSE b, stride)] :
        m \in 0..n, a \in SegmentTemplates, b \in SegmentTemplates,
        stride \in StartStrides}

\* Longest transcript file, in records.
MaxRecords == 3

\* a blank record: ''
Record_blank == <<>>
\* a record of white space only: ' \t '
Record_spaces == <<" ","\t"," ">>
\* a well-formed record: '0:00\t0\tSo'
Record_first == <<"0",":","0","0","\t","0","\t","S","o">>
\* padded fields, and a tab inside the text: ' 0:10 \t 10 \tnew\tapp '
Record_padded ==
    <<" ","0",":","1","0"," ","\t"," ","1","0",
      " ","\t","n","e","w","\t","a","p","p"," ">>
\* a record of two fields: '0:10\t10'
Record_two_fields == <<"0",":","1","0","\t","1","0">>
\* a record of one field: 'So'
Record_one_field == <<"S","o">>
\* three fields, the second not an integer: '0:15\tx\tSo'
Record_not_integer == <<"0",":","1","5","\t","x","\t","S","o">>

RecordPool ==
    {Record_blank, Record_spaces, Record_first, Record_padded,
     Record_two_fields, Record_one_field, Record_not_integer}

\* The files of up to n records.
Files(n) == UNION {[1..m -> RecordPool] : m \in 0..n}

\* Longest transcript of the runs that go on to the highlight reels.
MaxCallLines == 2

\* Longest transcript of the runs that follow the long-segment policy.
MaxPolicyLines == 20
\* Every state of the random source.
PolicySeeds == 0..99

\* A transcript of n lines, one every 10 seconds.
PolicyLines(n) == [k \in 1..n |-> TranscriptLine(k, 10 * (k - 1), Text_So)]

\* Line texts for calculate_break_score: filler words at the end, inside a
\* longer word, after an underscore and a hyphen, before white space, twice,
\* and not at the end.
Score_So == <<"S","o">>
Score_also == <<"a","l","s","o">>
Score_so_what == <<"s","o"," ","w","h","a","t">>
Score_Alright_padded == <<"A","l","r","i","g","h","t"," ","\t">>
Score_is_that_right == <<"i","s"," ","t","h","a","t"," ","r","i","g","h","t">>
Score_bright == <<"b","r","i","g","h","t">>
Score_and_so == <<"a","n","d","_","s","o">>
Score_and_dash_so == <<"a","n","d","-","s","o">>
Score_so_so == <<"s","o"," ","s","o">>
Score_well_okay == <<"w","e","l","l"," ","o","k","a","y">>
Score_new_app == <<"n","e","w"," ","a","p","p">>
Score_yeah_no == <<"y","e","a","h"," ","n","o">>
ScoreTexts ==
    {Score_So, Score_also, Score_so_what, Score_Alright_padded,
     Score_is_that_right, Score_bright, Score_and_so, Score_and_dash_so,
     Score_so_so, Score_well_okay, Score_new_app, Score_yeah_no}

\* ------------------------------------------------------------ operations

\* The state at the call of create_segments: "segments = []", "current_start = 0".
Start(ls, cfg, state) ==
    /\ file = <<>>
    /\ break_score = None
    /\ output = <<>>
    /\ selector = None
    /\ error = None
    /\ lines = ls
    /\ config = cfg
    /\ pc = "build"
    /\ segments = <<>>
    /\ current_start = 0
    /\ step = None
    /\ highlights = None
    /\ rng = state
    /\ first_run = None

\* create_segments on a transcript of up to MaxLines lines, the random source
\* unseeded.
Init ==
    \E ls \in LineSeqs(LinePool, MaxLines), d \in DurationsPool :
        Start(ls, Config(d, None), None)

\* A cursor moved past the whole candidate window instead of the chosen end.
Iterate_past_window(b) ==
    /\ segments' = Append(segments, b.segment)
    /\ current_start' = Max(b.end_idx, b.max_end_idx) + 1
    /\ step' = Some(b)

\* The end of an iteration with "current_start = end_idx": the next segment
\* starts again on the line the last one ended on.
Iterate_same_line(b) ==
    /\ segments' = Append(segments, b.segment)
    /\ current_start' = b.end_idx
    /\ step' = Some(b)

\* The effect of one loop iteration b on the state of create_segments:
\* "segments.append(segment)", "current_start = end_idx + 1".
Iterate(b) ==
    /\ segments' = Append(segments, b.segment)
    /\ current_start' = b.end_idx + 1
    /\ step' = Some(b)

\* One iteration of "while current_start < len(lines)", the draws being any
\* values of the unseeded random source.
BuildSegment ==
    /\ pc = "build"
    /\ rng = None
    /\ current_start < Len(lines)
    /\ \E r1 \in Draws, r2 \in SecondDraws :
            Iterate(LoopBody(lines, config, segments, current_start, r1, r2))
    /\ UNCHANGED <<break_score, output, selector, file, error, lines, config, pc, highlights, rng, first_run>>

\* "return segments": the loop condition fails.
ReturnSegments ==
    /\ pc = "build"
    /\ rng = None
    /\ current_start >= Len(lines)
    /\ pc' = "built"
    /\ UNCHANGED <<break_score, output, selector, file, error, lines, config, segments, current_start, step, highlights,
                   rng, first_run>>

\* main: highlights = segmenter.generate_highlight_reels(segments)
GenerateHighlightReels ==
    /\ pc = "built"
    /\ LET result == generate_highlight_reels(segments)
       IN  /\ segments' = result.segments
           /\ highlights' = Some([quick         |-> result.quick,
                                  extended      |-> result.extended,
                                  comprehensive |-> result.comprehensive])
    /\ pc' = "done"
    /\ UNCHANGED <<break_score, output, selector, file, error, lines, config, current_start, step, rng, first_run>>

Next == BuildSegment \/ ReturnSegments

Spec == Init /\ [][Next]_vars

\* create_segments is sequential code: the loop body runs while the loop
\* condition holds, and the return follows when it fails.  The fairness of
\* BuildSegment is WF_vars(BuildSegment) with its enabling condition, the
\* loop condition, written out.
BuildFair ==
    \/ []<>(~(pc = "build" /\ rng = None /\ current_start < Len(lines)))
    \/ []<><<BuildSegment>>_vars

\* create_segments on a transcript of up to MaxSeededLines lines, the random
\* source unseeded.
InitFair ==
    \E ls \in LineSeqs(SeededLinePool, MaxSeededLines), d \in DurationsPool :
        Start(ls, Config(d, None), None)

FairSpec == InitFair /\ [][Next]_vars /\ BuildFair /\ WF_vars(ReturnSegments)

\* generate_highlight_reels called on a segment list of up to MaxSegments
\* segments.
InitReels ==
    /\ file = <<>>
    /\ break_score = None
    /\ output = <<>>
    /\ selector = None
    /\ error = None
    /\ lines = <<>>
    /\ config = Config(DefaultDurations, None)
    /\ pc = "built"
    /\ segments \in SegmentSeqs(MaxSegments)
    /\ current_start = 0
    /\ step = None
    /\ highlights = None
    /\ rng = None
    /\ first_run = None

NextReels == GenerateHighlightReels

SpecReels == InitReels /\ [][NextReels]_vars

\* One loop iteration with the draws of the seeded random source.
BuildSegmentSeeded ==
    /\ pc = "build"
    /\ rng # None
    /\ current_start < Len(lines)
    /\ LET r1 == RandomValue(rng[1])
           r2 == RandomValue(RandomAdvance(rng[1]))
           b  == LoopBody(lines, config, segments, current_start, r1, r2)
       IN  /\ Iterate(b)
           /\ rng' = IF b.draws = 1 THEN Some(RandomAdvance(rng[1]))
                     ELSE Some(RandomAdvance(RandomAdvance(rng[1])))
    /\ UNCHANGED <<break_score, output, selector, file, error, lines, config, pc, highlights, first_run>>

\* The first run returns; main runs again on the same file with the same
\* --seed.
RunAgain ==
    /\ pc = "build"
    /\ rng # None
    /\ current_start >= Len(lines)
    /\ first_run = None
    /\ first_run' = Some(segments)
    /\ rng' = Reseed(rng, config.seed)
    /\ segments' = <<>>
    /\ current_start' = 0
    /\ step' = None
    /\ UNCHANGED <<break_score, output, selector, file, error, lines, config, pc, highlights>>

\* The second run returns.
ReturnSeeded ==
    /\ pc = "build"
    /\ rng # None
    /\ current_start >= Len(lines)
    /\ first_run # None
    /\ pc' = "built"
    /\ UNCHANGED <<break_score, output, selector, file, error, lines, config, segments, current_start, step, highlights,
                   rng, first_run>>

\* main with --seed, on a transcript of up to MaxSeededLines lines.
InitSeeded ==
    \E ls \in LineSeqs(SeededLinePool, MaxSeededLines), d \in DurationsPool, seed \in 0..MaxSeed :
        Start(ls, Config(d, Some(seed)), Some(SeedState(seed)))

NextSeeded == BuildSegmentSeeded \/ RunAgain \/ ReturnSeeded

SpecSeeded == InitSeeded /\ [][NextSeeded]_vars

\* main before "segmenter.parse_transcript_file(args.file)": nothing is bound
\* yet but the configuration.
InitParse ==
    /\ file \in Files(MaxRecords)
    /\ break_score = None
    /\ output = <<>>
    /\ selector = None
    /\ error = None
    /\ lines = <<>>
    /\ config = Config(DefaultDurations, None)
    /\ pc = "parse"
    /\ segments = <<>>
    /\ current_start = 0
    /\ step = None
    /\ highlights = None
    /\ rng = None
    /\ first_run = None

\* "lines = segmenter.parse_transcript_file(args.file)" returns.
ParseTranscriptFile ==
    /\ pc = "parse"
    /\ ~parse_transcript_file(file).raised
    /\ lines' = parse_transcript_file(file).lines
    /\ pc' = "parsed"
    /\ UNCHANGED <<break_score, output, selector, file, error, config, segments, current_start, step, highlights,
                   rng, first_run>>

\* parse_transcript_file raises: main's "lines" is never bound and
\* "except Exception as e" reports the error.
ParseFails ==
    /\ pc = "parse"
    /\ parse_transcript_file(file).raised
    /\ error' = Some("ValueError")
    /\ pc' = "error"
    /\ UNCHANGED <<break_score, output, selector, file, lines, config, segments, current_start, step, highlights,
                   rng, first_run>>

NextParse == ParseTranscriptFile \/ ParseFails

SpecParse == InitParse /\ [][NextParse]_vars

\* create_segments(lines) is called on a transcript of up to MaxCallLines
\* lines, and generate_highlight_reels on what it returns.
InitCalls ==
    /\ file = <<>>
    /\ break_score = None
    /\ output = <<>>
    /\ selector = None
    /\ error = None
    /\ lines \in LineSeqs(SeededLinePool, MaxCallLines)
    /\ config = Config(DefaultDurations, None)
    /\ pc = "call"
    /\ segments = <<>>
    /\ current_start = 0
    /\ step = None
    /\ highlights = None
    /\ rng = None
    /\ first_run = None

\* create_segments down to its while loop: "segments = []",
\* "current_start = 0" and the estimate, whose subscripts end the call with
\* IndexError if they raise.
CallCreateSegments ==
    /\ pc = "call"
    /\ segments' = <<>>
    /\ current_start' = 0
    /\ IF total_duration(lines) = None
       THEN pc' = "error" /\ error' = Some("IndexError")
       ELSE pc' = "build" /\ error' = error
    /\ UNCHANGED <<break_score, output, selector, file, lines, config, step, highlights, rng, first_run>>

NextCalls ==
    \/ CallCreateSegments
    \/ BuildSegment
    \/ ReturnSegments
    \/ GenerateHighlightReels

SpecCalls == InitCalls /\ [][NextCalls]_vars

\* Seeded runs of create_segments on transcripts long enough for the share
\* of long segments to fall between half the target and the target.
InitPolicy ==
    \E n \in 0..MaxPolicyLines, seed \in PolicySeeds :
        Start(PolicyLines(n), Config(DefaultDurations, Some(seed)),
              Some(SeedState(seed)))

SpecPolicy == InitPolicy /\ [][NextSeeded]_vars

\* calculate_break_score on one line of ScoreTexts, with no next line or
\* with one of ScoreTexts after it.
InitScore ==
    /\ break_score = None
    /\ output = <<>>
    /\ selector = None
    /\ file = <<>>
    /\ error = None
    /\ \E t \in ScoreTexts :
          \/ lines = <<TranscriptLine(1, 0, t)>>
          \/ \E n \in ScoreTexts :
                lines = <<TranscriptLine(1, 0, t), TranscriptLine(2, 10, n)>>
    /\ config = Config(DefaultDurations, None)
    /\ pc = "score"
    /\ segments = <<>>
    /\ current_start = 0
    /\ step = None
    /\ highlights = None
    /\ rng = None
    /\ first_run = None

\* "score = self.calculate_break_score(lines[i], next_line)" for i = 0, with
\* "next_line = lines[i + 1] if i + 1 < len(lines) else None".
CalculateBreakScore ==
    /\ pc = "score"
    /\ LET has_next == 1 < Len(lines)
           next_text == IF has_next THEN lines[2].text ELSE <<>>
       IN  break_score' =
               Some([score |-> calculate_break_score(lines[1].text, has_next, next_text),
                     part  |-> BreakScoreParts(lines[1].text, has_next, next_text)])
    /\ pc' = "scored"
    /\ UNCHANGED <<output, selector, file, error, lines, config, segments, current_start, step,
                   highlights, rng, first_run>>

NextScore == CalculateBreakScore

SpecScore == InitScore /\ [][NextScore]_vars

\* main from its "try:" on, on a transcript file of up to MaxRecords records
\* with the default configuration and no seed.
InitMain == InitParse

\* print(f"Loaded {len(lines)} transcript lines from {args.file}"), and on to
\* "segments = segmenter.create_segments(lines)".
PrintLoaded ==
    /\ pc = "parsed"
    /\ output' = Append(output, [loaded |-> Len(lines)])
    /\ pc' = "call"
    /\ UNCHANGED <<break_score, selector, file, error, lines, config, segments,
                   current_start, step, highlights, rng, first_run>>

\* "segmenter.display_segments(segments)": the summary is printed, or the
\* ZeroDivisionError it raises ends main in "except Exception".
DisplaySegments ==
    /\ pc = "built"
    /\ LET shown == display_segments(segments)
       IN  IF shown = None
           THEN /\ pc' = "error"
                /\ error' = Some("ZeroDivisionError")
                /\ output' = output
           ELSE /\ pc' = "displayed"
                /\ error' = error
                /\ output' = Append(output, shown[1])
    /\ UNCHANGED <<break_score, selector, file, lines, config, segments, current_start,
                   step, highlights, rng, first_run>>

\* "highlights = segmenter.generate_highlight_reels(segments)" and the three
\* format_highlight_list lines main prints.
PrintHighlights ==
    /\ pc = "displayed"
    /\ LET result == generate_highlight_reels(segments)
       IN  /\ segments' = result.segments
           /\ highlights' = Some([quick         |-> result.quick,
                                  extended      |-> result.extended,
                                  comprehensive |-> result.comprehensive])
           /\ output' = Append(output,
                             [quick         |-> format_highlight_list(result.quick),
                              extended      |-> format_highlight_list(result.extended),
                              comprehensive |->
                                  format_highlight_list(result.comprehensive)])
    /\ pc' = "done"
    /\ UNCHANGED <<break_score, selector, file, error, lines, config, current_start,
                   step, rng, first_run>>

NextMain ==
    \/ ParseTranscriptFile
    \/ ParseFails
    \/ PrintLoaded
    \/ CallCreateSegments
    \/ BuildSegment
    \/ ReturnSegments
    \/ DisplaySegments
    \/ PrintHighlights

SpecMain == InitMain /\ [][NextMain]_vars

\* Longest transcript handed to the selector.
MaxSelectorLines == 3
\* Most ranges recorded in one run of the selector.
MaxRanges == 2

\* The k-th line parse_lines appends: a dict of timestamp, seconds and text.
SelectorLine(k) ==
    [timestamp |-> Stamp(10 * (k - 1)), seconds |-> 10 * (k - 1),
     text |-> IF k % 2 = 1 THEN Text_So ELSE Text_new_app]

\* TranscriptSelector(lines) on a transcript of up to MaxSelectorLines lines:
\* the fields as __init__ leaves them, with the last key run has read.
InitSelector ==
    /\ file = <<>>
    /\ break_score = None
    /\ output = <<>>
    /\ error = None
    /\ lines = <<>>
    /\ config = Config(DefaultDurations, None)
    /\ pc = "run"
    /\ segments = <<>>
    /\ current_start = 0
    /\ step = None
    /\ highlights = None
    /\ rng = None
    /\ first_run = None
    /\ \E n \in 0..MaxSelectorLines :
          selector = Some([lines           |-> [k \in 1..n |-> SelectorLine(k)],
                           current_index   |-> 0,
                           selected_ranges |-> <<>>,
                           selecting       |-> FALSE,
                           selection_start |-> None,
                           key             |-> None])

\* The variables the selector leaves alone.
SelectorFrame ==
    UNCHANGED <<break_score, file, lines, config, segments, current_start, step,
                highlights, rng, first_run>>

\* run: "if not self.lines: print(...); return", else into the key loop.
Run ==
    /\ pc = "run"
    /\ pc' = IF selector[1].lines = <<>> THEN "returned" ELSE "keys"
    /\ UNCHANGED <<selector, output, error>>
    /\ SelectorFrame

\* The end of run after "break": the selected ranges are printed when there
\* are any.
Finish(key) ==
    LET sel == selector[1]
        printed == PrintedRanges(sel.lines, sel.selected_ranges)
    IN  /\ pc = "keys"
        /\ selector' = Some([sel EXCEPT !.key = Some(key)])
        /\ IF sel.selected_ranges = <<>>
           THEN pc' = "finished" /\ output' = output /\ error' = error
           ELSE IF printed = None
           THEN pc' = "error" /\ output' = output /\ error' = Some("IndexError")
           ELSE pc' = "finished" /\ output' = Append(output, printed[1])
                                 /\ error' = error
        /\ SelectorFrame

\* key == 'q'
KeyQuit == Finish("q")

\* key == '\r' or key == '\n'
KeyEnter == \E key \in {"\r", "\n"} : Finish(key)

\* A space that records the range as (selection_start, current_index), in the
\* order the cursor moved.
KeySpace_unordered ==
    LET sel == selector[1]
    IN  /\ pc = "keys"
        /\ sel.selecting => Len(sel.selected_ranges) < MaxRanges
        /\ selector' =
              IF ~sel.selecting
              THEN Some([sel EXCEPT !.selecting = TRUE,
                                    !.selection_start = Some(sel.current_index),
                                    !.key = Some(" ")])
              ELSE Some([sel EXCEPT
                      !.selected_ranges =
                          Append(@, <<sel.selection_start[1], sel.current_index>>),
                      !.selecting = FALSE,
                      !.selection_start = None,
                      !.key = Some(" ")])
        /\ UNCHANGED <<pc, output, error>>
        /\ SelectorFrame

\* key == ' ': a selection starts at the cursor, or the one under way ends
\* and its range (min, max) of selection_start and the cursor is appended.
KeySpace ==
    LET sel == selector[1]
    IN  /\ pc = "keys"
        /\ sel.selecting => Len(sel.selected_ranges) < MaxRanges
        /\ selector' =
              IF ~sel.selecting
              THEN Some([sel EXCEPT !.selecting = TRUE,
                                    !.selection_start = Some(sel.current_index),
                                    !.key = Some(" ")])
              ELSE LET start_idx == Min(sel.selection_start[1], sel.current_index)
                       end_idx == Max(sel.selection_start[1], sel.current_index)
                   IN  Some([sel EXCEPT
                           !.selected_ranges = Append(@, <<start_idx, end_idx>>),
                           !.selecting = FALSE,
                           !.selection_start = None,
                           !.key = Some(" ")])
        /\ UNCHANGED <<pc, output, error>>
        /\ SelectorFrame

\* key == '\x1b[A': up, unless the cursor is on the first line.
KeyUp ==
    LET sel == selector[1]
    IN  /\ pc = "keys"
        /\ selector' = Some([sel EXCEPT
                !.current_index = IF @ > 0 THEN @ - 1 ELSE @,
                !.key = Some("up")])
        /\ UNCHANGED <<pc, output, error>>
        /\ SelectorFrame

\* A down key tested with "<= len(self.lines) - 1".
KeyDown_inclusive ==
    LET sel == selector[1]
    IN  /\ pc = "keys"
        /\ selector' = Some([sel EXCEPT
                !.current_index = IF @ <= Len(sel.lines) - 1 THEN @ + 1 ELSE @,
                !.key = Some("down")])
        /\ UNCHANGED <<pc, output, error>>
        /\ SelectorFrame

\* key == '\x1b[B': down, unless the cursor is on the last line.
KeyDown ==
    LET sel == selector[1]
    IN  /\ pc = "keys"
        /\ selector' = Some([sel EXCEPT
                !.current_index = IF @ < Len(sel.lines) - 1 THEN @ + 1 ELSE @,
                !.key = Some("down")])
        /\ UNCHANGED <<pc, output, error>>
        /\ SelectorFrame

\* Any other key: no branch of the if/elif chain is taken.
KeyOther ==
    /\ pc = "keys"
    /\ selector' = Some([selector[1] EXCEPT !.key = Some("x")])
    /\ UNCHANGED <<pc, output, error>>
    /\ SelectorFrame

NextSelector ==
    \/ Run
    \/ KeyQuit
    \/ KeyEnter
    \/ KeySpace
    \/ KeyUp
    \/ KeyDown
    \/ KeyOther

SpecSelector == InitSelector /\ [][NextSelector]_vars


\* ---------------------------------------------------------------- claims

Range(s) == {s[k] : k \in 1..Len(s)}

\* C1: the segments create_segments returns partition the lines: the first
\* starts at line 1, each next one starts on the line after the previous
\* one's end, and the last ends on the last line number.
C1_Partition ==
    (pc = "built" /\ Len(lines) > 0) =>
        /\ Len(segments) > 0
        /\ segments[1].start_line = lines[1].line_number
        /\ segments[1].start_line = 1
        /\ \A k \in 1..(Len(segments) - 1) :
                segments[k].end_line + 1 = segments[k + 1].start_line
        /\ segments[Len(segments)].end_line = lines[Len(lines)].line_number

\* A returned partition of several segments.
C1_Witness == pc = "built" /\ Len(segments) >= 2

\* C2: no segment is empty: start_line <= end_line for every segment built,
\* whatever window was chosen and whatever the boundary scans returned.
C2_NonEmpty ==
    \A k \in 1..Len(segments) : segments[k].start_line <= segments[k].end_line

\* A segment built in a step whose maximum scan ended before the minimum
\* boundary (max_end < min_end), after a long attempt the gate rejected.
C2_Witness ==
    /\ step # None
    /\ step[1].max_end_idx < step[1].min_end_idx
    /\ step[1].rejected
    /\ step[1].end_idx = step[1].min_end_idx

\* C3: every segment's start_seconds and end_seconds are the seconds of its
\* first and last line, its duration is end_seconds - start_seconds, and the
\* duration is not negative.
C3_DurationConsistent ==
    \A k \in 1..Len(segments) :
        LET s == segments[k]
        IN  /\ s.start_seconds = lines[s.start_line].seconds
            /\ s.end_seconds = lines[s.end_line].seconds
            /\ s.duration = s.end_seconds - s.start_seconds
            /\ s.duration >= 0

\* C4: generate_highlight_reels leaves the list it is given as it was, and
\* every element of the three lists it returns is a segment of that list.
C4_SelectsFromInput ==
    [][(pc = "built" /\ pc' = "done") =>
            /\ segments' = segments
            /\ \A tier \in {highlights'[1].quick, highlights'[1].extended,
                             highlights'[1].comprehensive} :
                    Range(tier) \subseteq Range(segments)]_vars

\* A call that admitted some segments of a list that is not in score order
\* and refused others.
C4_Witness ==
    /\ pc = "done"
    /\ Len(highlights[1].quick) >= 2
    /\ Len(highlights[1].comprehensive) < Len(segments)
    /\ \E k \in 1..(Len(segments) - 1) :
            analyze_segment_importance(segments[k])
                < analyze_segment_importance(segments[k + 1])

\* sum(seg.duration for seg in tier)
TierDuration(tier) == Sum([k \in 1..Len(tier) |-> tier[k].duration])

\* The tier's total less one of its segments is below the cap.
WithinOneSegmentOf(tier, cap) ==
    \/ TierDuration(tier) < cap
    \/ \E k \in 1..Len(tier) : TierDuration(tier) - tier[k].duration < cap

\* C5 as stated: the durations of the quick tier sum to at most 120 seconds,
\* of the extended tier to at most 180, of the comprehensive tier to at most
\* 240.
C5_DurationCapped ==
    pc = "done" =>
        /\ TierDuration(highlights[1].quick) <= 120
        /\ TierDuration(highlights[1].extended) <= 180
        /\ TierDuration(highlights[1].comprehensive) <= 240

\* C5 as amended: the cap is tested before a segment is admitted, so in each
\* tier the total less the duration of one of its segments (the last one
\* admitted) is below 120, 180 and 240 seconds.
C5_CappedBeforeLast ==
    pc = "done" =>
        /\ WithinOneSegmentOf(highlights[1].quick, 120)
        /\ WithinOneSegmentOf(highlights[1].extended, 180)
        /\ WithinOneSegmentOf(highlights[1].comprehensive, 240)

\* A quick tier that the duration test closed and that runs over 120 seconds.
C5_Witness ==
    /\ pc = "done"
    /\ TierDuration(highlights[1].quick) > 120
    /\ Len(highlights[1].quick) < 8

\* C6: the quick tier holds at most 8 segments, the extended tier at most 12,
\* the comprehensive tier at most 20.
C6_CountCapped ==
    pc = "done" =>
        /\ Len(highlights[1].quick) <= 8
        /\ Len(highlights[1].extended) <= 12
        /\ Len(highlights[1].comprehensive) <= 20

\* Every tier full, with a further segment that clears every threshold.
C6_Witness ==
    /\ pc = "done"
    /\ Len(highlights[1].quick) = 8
    /\ Len(highlights[1].extended) = 12
    /\ Len(highlights[1].comprehensive) = 20
    /\ Cardinality({k \in 1..Len(segments) :
                        analyze_segment_importance(segments[k]) > 10}) > 20

\* C7: every segment of the quick tier scores above 1.0, of the extended
\* tier above 0.5, of the comprehensive tier above 0.2; a score equal to the
\* threshold is not admitted.
C7_AboveThreshold ==
    pc = "done" =>
        /\ \A s \in Range(highlights[1].quick) : analyze_segment_importance(s) > 10
        /\ \A s \in Range(highlights[1].extended) : analyze_segment_importance(s) > 5
        /\ \A s \in Range(highlights[1].comprehensive) :
                analyze_segment_importance(s) > 2

\* Segments scoring exactly 1.0 and exactly 0.5 were offered while the quick
\* and extended tiers still had room and time.
C7_Witness ==
    /\ pc = "done"
    /\ \E s \in Range(segments) : analyze_segment_importance(s) = 10
    /\ \E s \in Range(segments) : analyze_segment_importance(s) = 5
    /\ Len(highlights[1].quick) \in 1..7
    /\ TierDuration(highlights[1].quick) < 120
    /\ Len(highlights[1].extended) \in 1..11
    /\ TierDuration(highlights[1].extended) < 180

\* The tier is in non-decreasing order of start_seconds.
Ascending(tier) ==
    \A k \in 1..(Len(tier) - 1) : tier[k].start_seconds <= tier[k + 1].start_seconds

\* C8: each returned tier is ordered by non-decreasing start_seconds, whatever
\* the order of admission.
C8_TimelineOrdered ==
    pc = "done" =>
        /\ Ascending(highlights[1].quick)
        /\ Ascending(highlights[1].extended)
        /\ Ascending(highlights[1].comprehensive)

\* A quick tier whose segments were admitted in another order than the one
\* returned.
C8_Witness ==
    /\ pc = "done"
    /\ Len(highlights[1].quick) >= 3
    /\ ~Ascending(SelectTier(ScoredSegments(segments), 8, 120, 10))

\* C9: in a step whose candidate window has more than one index, the chosen
\* end is the smallest index of [min_end, max_end] whose break score is the
\* greatest of the window.
C9_EarliestMaximum ==
    (step # None /\ step[1].max_end_idx > step[1].min_end_idx) =>
        LET b == step[1]
            window == b.min_end_idx..b.max_end_idx
        IN  /\ b.end_idx \in window
            /\ \A i \in window :
                    BreakScoreAt(lines, i) <= BreakScoreAt(lines, b.end_idx)
            /\ \A i \in window :
                    i < b.end_idx =>
                        BreakScoreAt(lines, i) < BreakScoreAt(lines, b.end_idx)

FieldCount(record) ==
    1 + Cardinality({i \in 1..Len(strip(record)) : strip(record)[i] = "\t"})

Blank(record) == \A i \in 1..Len(record) : IsSpace(record[i])

ShortRecord(record) == ~Blank(record) /\ FieldCount(record) < 3

\* C11: a file holding a non-blank record of fewer than three tab-separated
\* fields is never parsed into a line sequence: the parse fails on it.
C11_ShortRecordFails ==
    (\E k \in 1..Len(file) : ShortRecord(file[k])) => pc # "parsed"

BadSeconds(record) ==
    /\ ~Blank(record)
    /\ FieldCount(record) >= 3
    /\ int(split(strip(record), "\t")[2]) = None

\* C12: when some record of the file has three or more fields and a second
\* field that is not an integer, parse_transcript_file raises; the record is
\* not passed over, no line sequence reaches the caller (not even the lines
\* before the record), and the error is what main is left with.
C12_NonIntegerFails ==
    (\E k \in 1..Len(file) : BadSeconds(file[k])) =>
        /\ pc # "parsed"
        /\ lines = <<>>
        /\ pc = "parse" => parse_transcript_file(file).raised
        /\ pc = "error" => error = Some("ValueError")

C12_Witness ==
    /\ pc = "error"
    /\ Len(file) >= 2
    /\ file[1] = Record_first
    /\ BadSeconds(file[2])

\* C13: the lines the parser returns carry the numbers 1, 2, 3, ... in
\* order, one per accepted record (non-blank, three or more fields); a blank
\* or white-space-only record gives no line, no error, and uses up no number.
C13_NumberedInOrder ==
    pc = "parsed" =>
        /\ \A k \in 1..Len(lines) : lines[k].line_number = k
        /\ Len(lines) =
               Cardinality({k \in 1..Len(file) :
                               ~Blank(file[k]) /\ FieldCount(file[k]) >= 3})
        /\ error = None

C13_Witness ==
    /\ pc = "parsed"
    /\ Len(file) = 3
    /\ file[1] = Record_first
    /\ Blank(file[2])
    /\ file[3] = Record_padded
    /\ Len(lines) = 2
    /\ lines[2].line_number = 2
    /\ lines[2].text = <<"n","e","w","\t","a","p","p">>
    /\ lines[2].seconds = 10

NoHighlights == [quick |-> <<>>, extended |-> <<>>, comprehensive |-> <<>>]

\* C14: on an empty line sequence create_segments returns the empty segment
\* sequence without entering its loop, generate_highlight_reels on that
\* returns three empty tiers, and neither call raises.
C14_EmptyInEmptyOut ==
    lines = <<>> =>
        /\ pc # "error"
        /\ error = None
        /\ segments = <<>>
        /\ step = None
        /\ pc = "done" => highlights = Some(NoHighlights)

C14_Witness ==
    /\ lines = <<>>
    /\ pc = "done"
    /\ segments = <<>>
    /\ highlights # None

\* C15: a transcript of exactly one line gives exactly one segment, whose
\* start_line and end_line are both that line's number and whose duration
\* is 0, whatever the configuration and the draws.
C15_SingleLine ==
    (Len(lines) = 1 /\ (pc = "built" \/ step # None)) =>
        /\ Len(segments) = 1
        /\ segments[1].start_line = lines[1].line_number
        /\ segments[1].end_line = lines[1].line_number
        /\ segments[1].duration = 0

C15_Witness ==
    /\ Len(lines) = 1
    /\ pc = "built"
    /\ Len(segments) = 1
    /\ step[1].should_go_long
    /\ config.max_duration < 0

Degenerate(cfg) ==
    \/ cfg.min_duration > cfg.max_duration
    \/ cfg.min_duration < 0
    \/ cfg.max_duration < 0
    \/ cfg.long_duration < 0

\* C16: under a degenerate configuration (min_duration > max_duration, or a
\* negative duration) no segment is ever built: the configuration is
\* rejected when the segmenter is constructed.
C16_DegenerateRejected == Degenerate(config) => segments = <<>>

\* Segment k of the list goes before segment j in descending order of score,
\* equal scores in their original order.
RanksBefore(k, j) ==
    LET score_k == analyze_segment_importance(segments[k])
        score_j == analyze_segment_importance(segments[j])
    IN  score_k > score_j \/ (score_k = score_j /\ k < j)

\* No segment left out of the tier ranks before one that is in it.
HigherRankedFirst(tier) ==
    \A k \in 1..Len(segments), j \in 1..Len(segments) :
        (segments[k] \in Range(tier) /\ segments[j] \notin Range(tier)) =>
            RanksBefore(k, j)

\* C17: every tier takes the segments in descending order of importance
\* score, equal scores in their original order: whenever one segment is
\* admitted and another is not, the admitted one has the strictly higher
\* score, or the same score and the earlier place in the list.
C17_DescendingScoreOrder ==
    pc = "done" =>
        /\ HigherRankedFirst(highlights[1].quick)
        /\ HigherRankedFirst(highlights[1].extended)
        /\ HigherRankedFirst(highlights[1].comprehensive)

\* The quick tier is full at 8 and under its duration cap; a segment with
\* 'biggest' and 'liquid glass' is in it, and a keyword-free segment of the
\* same duration and the same early start bonus, itself above the threshold,
\* is left out.
C17_Witness ==
    /\ pc = "done"
    /\ Len(highlights[1].quick) = 8
    /\ TierDuration(highlights[1].quick) < 120
    /\ \E k \in 1..Len(segments), j \in 1..Len(segments) :
          /\ segments[k].text = Text_biggest_liquid_glass
          /\ segments[j].text = Text_empty
          /\ segments[k].duration = segments[j].duration
          /\ segments[k].start_seconds < 60
          /\ segments[j].start_seconds < 60
          /\ analyze_segment_importance(segments[j]) > 10
          /\ segments[k] \in Range(highlights[1].quick)
          /\ segments[j] \notin Range(highlights[1].quick)
          /\ j < k

\* The number of long segments (duration above 22 s) among the first n built.
LongBuilt(n) == Cardinality({k \in 1..n : segments[k].duration > 22})

\* The bound on the draw, in hundredths, when long of the built segments
\* are long: 0.1 at a ratio of 0.15 or more, 0.6 below 0.075, 0.3 between.
LongBound(long, built) ==
    LET n == IF built >= 1 THEN built ELSE 1
    IN  IF 20 * long >= 3 * n THEN 10
        ELSE IF 40 * long < 3 * n THEN 60
        ELSE 30

SinceCursor(i) == lines[i + 1].seconds - lines[step[1].current_start + 1].seconds

\* C19: in every build step min_end is the smallest index from the cursor on
\* whose line is at least target_min seconds after the cursor's line, and
\* the last index of the sequence when there is no such index.
C19_MinEndFirstHit ==
    step # None =>
        LET b == step[1]
            last == Len(lines) - 1
        IN  IF \E i \in b.current_start..last : SinceCursor(i) >= b.target_min
            THEN /\ b.min_end_idx \in b.current_start..last
                 /\ SinceCursor(b.min_end_idx) >= b.target_min
                 /\ \A i \in b.current_start..(b.min_end_idx - 1) :
                        SinceCursor(i) < b.target_min
            ELSE b.min_end_idx = last

\* The minimum boundary lies past the cursor, exactly target_min after it.
C19_Witness ==
    /\ step # None
    /\ step[1].min_end_idx > step[1].current_start
    /\ step[1].min_end_idx < Len(lines) - 1
    /\ SinceCursor(step[1].min_end_idx) = step[1].target_min

\* max_end is right for a maximum scan from min_end under the bound
\* target_max.
MaxEndOf(min_end, max_end, target_max) ==
    LET last == Len(lines) - 1
    IN  /\ \A i \in min_end..max_end : SinceCursor(i) <= target_max
        /\ \/ max_end = last
           \/ /\ max_end + 1 \in min_end..last
              /\ SinceCursor(max_end + 1) > target_max
        /\ SinceCursor(min_end) > target_max => max_end = min_end - 1
        /\ max_end >= min_end - 1

\* C20: in every build step the maximum scan starts at min_end; every index
\* from min_end to max_end is at most target_max seconds after the cursor's
\* line, max_end is the last index or the index before the first scanned
\* line over target_max, and it is min_end - 1 when the line at min_end is
\* itself over target_max.  The same holds of the first scan of a long
\* window that the content test then rejects.
C20_MaxEndBacksOff ==
    step # None =>
        LET b == step[1]
        IN  /\ MaxEndOf(b.min_end_idx, b.max_end_idx, b.target_max)
            /\ MaxEndOf(b.min_end_idx, b.long_max_end,
                        IF b.rejected THEN config.long_duration ELSE b.target_max)

\* The line at min_end is over target_max under the default configuration:
\* the window is empty.
C20_Witness ==
    /\ step # None
    /\ config.max_duration > 0
    /\ step[1].min_end_idx > step[1].current_start
    /\ SinceCursor(step[1].min_end_idx) > step[1].target_max
    /\ step[1].max_end_idx = step[1].min_end_idx - 1

\* C21: in a build step that attempted a long window with max_end > min_end,
\* a suitability score of the span from the cursor to max_end below 1.0
\* discards the attempt: max_end is the maximum scan from the same min_end
\* under max_duration; at 1.0 or more the boundaries of the long window are
\* kept.  With no long attempt, or max_end <= min_end, nothing is changed.
C21_SuitabilityGate ==
    step # None =>
        LET b == step[1]
            gated == b.should_go_long /\ b.long_max_end > b.min_end_idx
            low == assess_text_complexity(lines, b.current_start, b.long_max_end) < 10
        IN  /\ b.rejected = (gated /\ low)
            /\ b.rejected =>
                  /\ b.target_max = config.max_duration
                  /\ MaxEndOf(b.min_end_idx, b.max_end_idx, config.max_duration)
            /\ ~b.rejected =>
                  /\ b.max_end_idx = b.long_max_end
                  /\ b.should_go_long =>
                        (b.target_min = 22 /\ b.target_max = config.long_duration)
            /\ b.should_go_long => b.target_min = 22

\* A long window of more than one candidate whose span scores exactly 1.0:
\* it is kept.
C21_Witness ==
    /\ step # None
    /\ step[1].should_go_long
    /\ step[1].long_max_end > step[1].min_end_idx
    /\ assess_text_complexity(lines, step[1].current_start, step[1].long_max_end) = 10
    /\ ~step[1].rejected
    /\ step[1].max_end_idx = step[1].long_max_end

\* C22: create_segments terminates: every iteration appends exactly one
\* segment and moves the cursor to end_index + 1, strictly past where it
\* stood and never past len(lines); the loop ends, after at most len(lines)
\* iterations, with the cursor equal to len(lines).
C22_Terminates ==
    /\ [][(pc = "build" /\ pc' = "build") =>
             /\ Len(segments') = Len(segments) + 1
             /\ current_start' = step'[1].end_idx + 1
             /\ current_start' > current_start
             /\ current_start' <= Len(lines)]_vars
    /\ [](pc = "built" =>
             (current_start = Len(lines) /\ Len(segments) <= Len(lines)))
    /\ <>(pc = "built")

\* The loop has ended after as many iterations as there are lines.
C22_Witness ==
    /\ pc = "built"
    /\ Len(lines) = MaxSeededLines
    /\ Len(segments) = Len(lines)
    /\ current_start = Len(lines)

\* The filler words of the sentence-final rule.
Fillers ==
    {<<"r","i","g","h","t">>, <<"o","k","a","y">>, <<"w","e","l","l">>,
     <<"y","e","a","h">>, <<"a","l","r","i","g","h","t">>, <<"s","o">>}

\* The text of the scored line, lowercased and without its trailing white
\* space.
ScoredText == rstrip(lower(lines[1].text))

\* The scored text ends with the letters of a filler word.
EndsWithFiller == \E w \in Fillers : EndsWith(ScoredText, w)

\* The scored text ends with a filler word that stands alone: it is the whole
\* text, or the character before it is no letter, digit or underscore.
EndsWithFillerWord ==
    \E w \in Fillers :
        /\ EndsWith(ScoredText, w)
        /\ \/ Len(ScoredText) = Len(w)
           \/ ~IsWordChar(ScoredText[Len(ScoredText) - Len(w)])

\* The score is the sum of what the rules gave, the sentence-final rule once.
BonusCountedOnce ==
    LET part == break_score[1].part
    IN  /\ break_score[1].score =
              part.strong + part.medium + part.weak - part.cont + part.topic
              + part.ending + part.final
        /\ part.final \in {0, 15}

\* C23 as stated: the +1.5 sentence-final bonus is in the break score exactly
\* when the lowercased text, trimmed of trailing white space, ends with one
\* of right, okay, well, yeah, alright, so; and it is added at most once.
C23_BonusOnFillerEnding ==
    pc = "scored" =>
        /\ BonusCountedOnce
        /\ (break_score[1].part.final = 15) = EndsWithFiller

\* C23 amended: the bonus is in the break score exactly when the trimmed,
\* lowercased text ends with one of the filler words standing alone (at the
\* start of the text or after a character that is no letter, digit or
\* underscore); and it is added at most once.
C23_BonusOnFillerWord ==
    pc = "scored" =>
        /\ BonusCountedOnce
        /\ (break_score[1].part.final = 15) = EndsWithFillerWord

\* A line with two filler words, the last one at its end, scored with the
\* bonus.
C23_Witness ==
    /\ pc = "scored"
    /\ lines[1].text = Score_so_so
    /\ break_score[1].part.final = 15

\* No record of the file is a valid line: each is blank or has fewer than
\* three fields.
NoValidLine == \A k \in 1..Len(file) : Blank(file[k]) \/ FieldCount(file[k]) < 3

\* C24: main, run on a transcript with no valid line, goes through parse,
\* create_segments, display_segments, generate_highlight_reels and
\* format_highlight_list with no error raised, and prints three empty
\* highlight lists.
C24_EmptyPipelineCompletes ==
    NoValidLine =>
        /\ pc # "error"
        /\ error = None
        /\ pc = "done" =>
              output[Len(output)] =
                  [quick |-> <<>>, extended |-> <<>>, comprehensive |-> <<>>]

\* No segment of the list has a negative duration.
NonNegativeDurations == \A k \in 1..Len(segments) : segments[k].duration >= 0

\* C25: for a segment list with non-negative durations the tiers are nested:
\* every segment of the quick tier is in the extended tier, and every segment
\* of the extended tier is in the comprehensive tier.
C25_TiersNested ==
    (pc = "done" /\ NonNegativeDurations) =>
        /\ Range(highlights[1].quick) \subseteq Range(highlights[1].extended)
        /\ Range(highlights[1].extended) \subseteq Range(highlights[1].comprehensive)

\* Three tiers of different sizes, the quick tier not empty.
C25_Witness ==
    /\ pc = "done"
    /\ NonNegativeDurations
    /\ 0 < Len(highlights[1].quick)
    /\ Len(highlights[1].quick) < Len(highlights[1].extended)
    /\ Len(highlights[1].extended) < Len(highlights[1].comprehensive)

\* The tier holds the first Len(tier) segments of the list in descending
\* order of score (equal scores in their original order), and nothing else.
IsRankingPrefix(tier) ==
    LET scored == ScoredSegments(segments)
    IN  /\ Len(tier) <= Len(scored)
        /\ tier = TimelineOrder([k \in 1..Len(tier) |-> scored[k][2]])

\* C26: for a segment list with non-negative durations each tier is exactly a
\* prefix of the ordering by descending score: it holds the candidates up to
\* the first one refused and none after it.
C26_TierIsPrefix ==
    (pc = "done" /\ NonNegativeDurations) =>
        /\ IsRankingPrefix(highlights[1].quick)
        /\ IsRankingPrefix(highlights[1].extended)
        /\ IsRankingPrefix(highlights[1].comprehensive)

\* The quick tier stops at its duration limit with fewer than 8 segments,
\* and a segment above its threshold is left out.
C26_Witness ==
    /\ pc = "done"
    /\ NonNegativeDurations
    /\ 0 < Len(highlights[1].quick)
    /\ Len(highlights[1].quick) < 8
    /\ TierDuration(highlights[1].quick) >= 120
    /\ \E k \in 1..Len(segments) :
          /\ analyze_segment_importance(segments[k]) > 10
          /\ segments[k] \notin Range(highlights[1].quick)

\* The seconds of the transcript never go down from one line to the next.
NonDecreasingSeconds ==
    \A k \in 1..(Len(lines) - 1) : lines[k].seconds <= lines[k + 1].seconds

\* The least target_min an iteration can have: 22 (long), 6 (short) or
\* min_duration (medium).
LeastTargetMin == Min(6, Min(config.min_duration, 22))

\* C27: on a transcript whose seconds never go down, a segment that does not
\* end on the last line has a duration of at least the target_min of the
\* window it was built under (22 long, 6 short, min_duration medium), hence
\* at least min(6, min_duration, 22); only the final segment may be shorter.
C27_MinimumDuration ==
    NonDecreasingSeconds =>
        /\ (step # None /\ step[1].end_idx < Len(lines) - 1) =>
              /\ step[1].target_min \in {22, 6, config.min_duration}
              /\ step[1].segment.duration >= step[1].target_min
        /\ \A k \in 1..Len(segments) :
              (k < Len(segments) \/ segments[k].end_line < Len(lines)) =>
                  segments[k].duration >= LeastTargetMin

\* create_segments returns two segments under the defaults: the first is at
\* least 22 s, and the final one, ending on the last line, is shorter than
\* every target_min.
C27_Witness ==
    /\ pc = "built"
    /\ NonDecreasingSeconds
    /\ config.min_duration = 9
    /\ Len(segments) = 2
    /\ segments[1].duration >= 22
    /\ segments[2].duration < LeastTargetMin
    /\ step[1].end_idx = Len(lines) - 1

Sel == selector[1]
LastIndex == Len(Sel.lines) - 1

\* C29: with a non-empty transcript the cursor stays on a line, 0 <=
\* current_index <= len(lines) - 1, after any sequence of keys; an up key on
\* the first line and a down key on the last line leave it where it is.
C29_CursorInBounds ==
    /\ [](Sel.lines # <<>> =>
            (0 <= Sel.current_index /\ Sel.current_index <= LastIndex))
    /\ [][(pc = "keys" /\ Sel'.key = Some("up") /\ Sel.current_index = 0) =>
            Sel'.current_index = 0]_vars
    /\ [][(pc = "keys" /\ Sel'.key = Some("down")
                /\ Sel.current_index = LastIndex) =>
            Sel'.current_index = LastIndex]_vars

\* On a transcript of one line, the first and the last, the down key has been
\* pressed and the cursor is still on it.
C29_Witness ==
    /\ pc = "keys"
    /\ Len(Sel.lines) = 1
    /\ Sel.key = Some("down")
    /\ Sel.current_index = 0

\* Every recorded range (s, e) lies on the transcript, s not after e.
RangesOrdered ==
    \A k \in 1..Len(Sel.selected_ranges) :
        LET s == Sel.selected_ranges[k][1]
            e == Sel.selected_ranges[k][2]
        IN  0 <= s /\ s <= e /\ e <= LastIndex

\* The step is the space key that ends a selection and appends its range.
EndsSelection ==
    /\ pc = "keys"
    /\ Sel.selecting
    /\ ~Sel'.selecting
    /\ Sel'.key = Some(" ")
    /\ Sel'.selected_ranges =
          Append(Sel.selected_ranges,
                 <<Min(Sel.selection_start[1], Sel.current_index),
                   Max(Sel.selection_start[1], Sel.current_index)>>)

\* C30: every recorded range (s, e) has 0 <= s <= e <= len(lines) - 1,
\* whichever way the cursor moved; selecting is true exactly when
\* selection_start is set; selected_ranges changes only by the space key that
\* ends a selection; and q or Enter pressed during a selection leaves
\* selected_ranges as it was.
C30_RangesWellFormed ==
    /\ [](RangesOrdered /\ (Sel.selecting <=> Sel.selection_start # None))
    /\ [][Sel'.selected_ranges # Sel.selected_ranges => EndsSelection]_vars
    /\ [][(pc = "keys" /\ Sel.selecting /\ Sel'.key \in {Some("q"), Some("\r"), Some("\n")}) =>
            (pc' = "finished" /\ Sel'.selected_ranges = Sel.selected_ranges)]_vars

\* A selection started below and ended above: the space key has just ended
\* it with the cursor on the first line of the recorded range.
C30_Witness ==
    /\ pc = "keys"
    /\ Sel.key = Some(" ")
    /\ ~Sel.selecting
    /\ Sel.selected_ranges # <<>>
    /\ LET last == Sel.selected_ranges[Len(Sel.selected_ranges)]
       IN  last[1] = Sel.current_index /\ last[1] < last[2]

====
